---- MODULE Spec2Model ----
(***************************************************************************)
(* Verification model of the deriv-trading-suite core:                     *)
(*   PositionManager   backend/src/trading/position_manager.py             *)
(*   OrderExecutor     backend/src/trading/order_executor.py               *)
(*   RiskManager       backend/src/core/risk_manager.py                    *)
(*   TradingBot        backend/src/trading/bot.py                          *)
(*   DerivAPIClient    backend/src/core/deriv_api.py                       *)
(*                                                                         *)
(* Money is kept in integer cents.  Time is a coarse integer clock of      *)
(* seconds.  Identifiers are integers: contract ids 1..MaxContracts,       *)
(* stream ids (the "uuid" of a contract-update frame) 101..100+MaxUuids,   *)
(* and 0 for an absent identifier (Python None).                           *)
(*                                                                         *)
(* The persistence layer (TradeRepo) is modelled at its interface:         *)
(* create / get / update by id of a record that carries the fields the     *)
(* core writes and reads (status, side, amount, created_at).               *)
(***************************************************************************)
EXTENDS Integers, Sequences, FiniteSets, TLC

VARIABLES
    \* ---- PositionManager -------------------------------------------------
    pm,             \* [active_positions, contract_id_to_uuid, uuid_to_contract_id, cleaned]
    everUuid,       \* history: contract id -> stream ids ever recorded for it
    closedCids,     \* history: contract ids for which mark_closed succeeded
    \* ---- OrderExecutor + persistence + broker ----------------------------
    trades,         \* OrderExecutor.trades, in insertion order
    tradeDb,        \* persisted Trade rows: trade id -> record
    placing,        \* place_trade calls suspended between the buy send and the meta registration
    brokerBuys,     \* buy requests the broker has received and not yet answered
    nextCid,        \* next contract id the broker issues
    cleanup,        \* TradingBot._cleanup_expired_trades in progress
    riskApplied,    \* history: trade id -> completed RiskManager.update_trade_outcome calls
    perfCalls,      \* history: trade id -> performance.add_trade calls
    trainCalls,     \* history: trade id -> SignalConsensus.add_training_sample calls
    soldSeen,       \* history: the first frame with is_sold set delivered for a then-active position
    soldTrade,      \* history: the trade of that position
    soldTwice,      \* history: that same frame has been delivered again
    soldTwiceChanged,\* history: such a repeated delivery changed the program's state
    persistFailed,  \* history: trade id -> settlements whose TradeRepo/ContractRepo update raised
    \* ---- TradingBot -------------------------------------------------------
    running,        \* TradingBot.running
    tickRegistered, \* _tick_handler is in DerivAPIClient._listeners
    tickPc,         \* position of the _tick_handler invocation the reader is awaiting
    intervalElapsed,\* time.time() - last_trade_time >= min_trade_interval
    \* ---- RiskManager ------------------------------------------------------
    risk,           \* the RiskManager's fields
    balance,        \* the account balance, cents
    now,            \* time.time(), seconds
    outcomes,       \* update_trade_outcome calls made so far
    sinceUpdate,    \* history: the last RiskManager method called was update_trade_outcome
    \* ---- DerivAPIClient (single-user connection) --------------------------
    conn,           \* the client: [ws, sockets, authorized, reader_task, lock]
    readerPc,       \* reader task id -> [pc, sock]: position of that _reader task
    callerPc,       \* caller task id -> position in its connect() call
    \* ---- DerivAPIClient: listener fan-out, buy() and authorize() ----------
    listeners,      \* DerivAPIClient._listeners, in registration order
    dispatch,       \* the reader task inside one iteration of its loop
    wire,           \* frames the broker has sent on the current socket, not yet read
    framesSent,     \* frames the broker has sent so far
    buyCall,        \* a DerivAPIClient.buy() call: [pc, ev, result]
    authCall,       \* a DerivAPIClient.authorize() call: [pc, result]
    authEvent,      \* DerivAPIClient._authorize_event is set
    \* ---- DerivAPIClient.send() ---------------------------------------------
    sendLock,       \* DerivAPIClient._send_lock: the task holding it, or 0
    written,        \* what send() callers have put on the socket, in order: <<task, part>>
    \* ---- SignalConsensus ---------------------------------------------------
    signals,        \* the signals handed to SignalConsensus.aggregate, in order
    consensus,      \* outcome of the last aggregate call
    ml_consensus,   \* MLConsensus: [training_data, labels, is_trained, retrains], lists by length
    \* ---- TradingBot run-loop tasks -----------------------------------------
    loopPc,         \* run-loop tasks created by start_bot: task -> [pc, iters]
    stoppedLoops    \* history: tasks that were inside run() when a stop() returned

pmVars == <<pm, everUuid, closedCids>>
exVars == <<trades, tradeDb, placing, brokerBuys, nextCid, cleanup,
            riskApplied, perfCalls, trainCalls, soldSeen, soldTrade, soldTwice, soldTwiceChanged,
            persistFailed>>
botVars == <<running, tickRegistered, tickPc, intervalElapsed>>
riskVars == <<risk, balance, now, outcomes, sinceUpdate>>
connVars == <<conn, readerPc, callerPc>>
dispVars == <<listeners, dispatch, wire, framesSent, buyCall, authCall, authEvent>>
sendVars == <<sendLock, written>>
consVars == <<signals, consensus, ml_consensus>>
loopVars == <<loopPc, stoppedLoops>>
vars == <<pm, everUuid, closedCids, trades, tradeDb, placing, brokerBuys, nextCid,
          cleanup, riskApplied, perfCalls, trainCalls, soldSeen, soldTrade, soldTwice,
          soldTwiceChanged, persistFailed,
          running, tickRegistered, tickPc, intervalElapsed,
          risk, balance, now, outcomes, sinceUpdate,
          conn, readerPc, callerPc,
          listeners, dispatch, wire, framesSent, buyCall, authCall, authEvent,
          sendLock, written,
          signals, consensus, ml_consensus,
          loopPc, stoppedLoops>>

(***************************************************************************)
(* Bounds of the model                                                     *)
(***************************************************************************)
MaxContracts == 3
MaxUuids == 2
MaxTrades == 2
\* trades placed in the settlement specification
MaxExecTrades == 1
\* risk updates counted per trade
MaxCalls == 2
\* update_trade_outcome calls in the risk specification
MaxOutcomes == 5
\* clock steps in the risk specification
MaxClockSteps == 2
\* reader tasks, tasks that call connect(), sockets opened
MaxReaders == 3
MaxCallers == 2
MaxSockets == 3
MaxFrames == 3
\* run-loop tasks created, iterations of one run loop
MaxLoops == 3
MaxIters == 2

NoId == 0
Cids == 1..MaxContracts
Uuids == 101..(100 + MaxUuids)
TradeIds == 1..MaxTrades
Identifiers == Cids \cup Uuids \cup {NoId}

(***************************************************************************)
(* PositionManager                                                         *)
(***************************************************************************)
NoPos == [trade_id |-> 0, contract_id |-> NoId, uuid |-> NoId, side |-> "NONE",
          entry_price |-> 0, status |-> "NONE"]

PMInit == [active_positions |-> <<>>, contract_id_to_uuid |-> <<>>,
           uuid_to_contract_id |-> <<>>, cleaned |-> {}]

\* dict.pop(key, None)
DictPop(d, k) == [x \in (DOMAIN d) \ {k} |-> d[x]]
\* d[key] = value
DictSet(d, k, v) == [x \in (DOMAIN d) \cup {k} |-> IF x = k THEN v ELSE d[x]]

add_position(p, trade_id, contract_id, side, entry_price) ==
    [p EXCEPT !.active_positions =
        DictSet(@, contract_id,
                [trade_id |-> trade_id, contract_id |-> contract_id, uuid |-> NoId,
                 side |-> side, entry_price |-> entry_price, status |-> "ACTIVE"])]

update_contract_uuid(p, contract_id, uuid) ==
    IF contract_id \notin DOMAIN p.active_positions
    THEN p
    ELSE [p EXCEPT !.active_positions[contract_id].uuid = uuid,
                   !.contract_id_to_uuid = DictSet(@, contract_id, uuid),
                   !.uuid_to_contract_id = DictSet(@, uuid, contract_id)]

get_position(p, identifier) ==
    IF identifier \in DOMAIN p.active_positions
    THEN p.active_positions[identifier]
    ELSE IF identifier \in DOMAIN p.uuid_to_contract_id
              /\ p.uuid_to_contract_id[identifier] \in DOMAIN p.active_positions
         THEN p.active_positions[p.uuid_to_contract_id[identifier]]
         ELSE NoPos

\* Mutant: only the identifier the caller passed is marked cleaned.
mark_closed_only_identifier(p, identifier) ==
    LET pos == get_position(p, identifier) IN
    IF pos = NoPos THEN p
    ELSE [active_positions |-> DictPop(p.active_positions, pos.contract_id),
          contract_id_to_uuid |-> DictPop(p.contract_id_to_uuid, pos.contract_id),
          uuid_to_contract_id |->
              IF pos.uuid # NoId THEN DictPop(p.uuid_to_contract_id, pos.uuid)
              ELSE p.uuid_to_contract_id,
          cleaned |-> p.cleaned \cup {identifier}]

mark_closed(p, identifier) ==
    LET pos == get_position(p, identifier) IN
    IF pos = NoPos THEN p
    ELSE [active_positions |-> DictPop(p.active_positions, pos.contract_id),
          contract_id_to_uuid |-> DictPop(p.contract_id_to_uuid, pos.contract_id),
          uuid_to_contract_id |->
              IF pos.uuid # NoId THEN DictPop(p.uuid_to_contract_id, pos.uuid)
              ELSE p.uuid_to_contract_id,
          cleaned |-> p.cleaned \cup {pos.contract_id, identifier}
                          \cup (IF pos.uuid # NoId THEN {pos.uuid} ELSE {})]

is_cleaned(p, identifier) == identifier \in p.cleaned

get_open_count(p) == Cardinality(DOMAIN p.active_positions)

(***************************************************************************)
(* OrderExecutor                                                           *)
(***************************************************************************)
\* settings.TRADE_AMOUNT = 1.0, in cents
TRADE_AMOUNT == 100
\* positional arguments RiskManager.update_trade_outcome accepts after self
UpdateTradeOutcomeParams == 2
\* positional arguments _handle_contract_update passes to it
SettlementUpdateArgs == 3
\* positional arguments _cleanup_expired_trades passes to it
CleanupUpdateArgs == 2

NoVal == -1
TerminalStatus == {"WON", "LOST", "REJECTED", "ERROR"}

_map_to_deriv_contract_type(side) ==
    IF side = "RISE" THEN "CALL"
    ELSE IF side = "FALL" THEN "PUT"
    ELSE IF side \in {"CALL", "PUT"} THEN side
    ELSE "CALL"

\* Mutant: the broker's contract type is kept as it is.
KeepDerivType(deriv_side) == deriv_side

_map_from_deriv_contract_type(deriv_side) ==
    IF deriv_side = "CALL" THEN "RISE"
    ELSE IF deriv_side = "PUT" THEN "FALL"
    ELSE deriv_side

NoTrade == [status |-> "NONE", side |-> "NONE", amount |-> 0, aged |-> FALSE]

\* Payloads of contract-update frames (proposal_open_contract / contract / sell).
\* A field that is absent from the payload is NoVal, "none" or FALSE.
Payloads ==
    { [is_sold |-> FALSE, status |-> "open", is_expired |-> FALSE, sell_price |-> NoVal,
       bid_price |-> 98, payout |-> NoVal, buy_price |-> NoVal, profit |-> NoVal,
       contract_type |-> "CALL"],
      [is_sold |-> TRUE, status |-> "none", is_expired |-> FALSE, sell_price |-> 195,
       bid_price |-> NoVal, payout |-> NoVal, buy_price |-> NoVal, profit |-> NoVal,
       contract_type |-> "CALL"],
      [is_sold |-> TRUE, status |-> "lost", is_expired |-> TRUE, sell_price |-> 0,
       bid_price |-> NoVal, payout |-> 195, buy_price |-> 100, profit |-> -100,
       contract_type |-> "PUT"],
      [is_sold |-> FALSE, status |-> "none", is_expired |-> TRUE, sell_price |-> NoVal,
       bid_price |-> NoVal, payout |-> 195, buy_price |-> 100, profit |-> NoVal,
       contract_type |-> "UNKNOWN"],
      [is_sold |-> FALSE, status |-> "sold", is_expired |-> FALSE, sell_price |-> NoVal,
       bid_price |-> NoVal, payout |-> NoVal, buy_price |-> NoVal, profit |-> 95,
       contract_type |-> "PUT"] }

ContractFrames ==
    { [id |-> i, contract_id |-> c, body |-> b] :
          i \in Uuids \cup {NoId}, c \in Cids \cup {NoId}, b \in Payloads }

NoFrame == [id |-> NoId, contract_id |-> NoId,
            body |-> [is_sold |-> FALSE, status |-> "none", is_expired |-> FALSE,
                      sell_price |-> NoVal, bid_price |-> NoVal, payout |-> NoVal,
                      buy_price |-> NoVal, profit |-> NoVal, contract_type |-> "UNKNOWN"]]

\* Mutant: every contract-update frame counts as a settlement.
FrameIsSoldAlways(b) == TRUE

\* order_executor.py:235-239
FrameIsSold(b) ==
    b.is_sold \/ b.status \in {"sold", "won", "lost"} \/ b.is_expired

\* order_executor.py:246-255: first payout field that is present, then the profit fallback
FramePayout(b, stake) ==
    LET first == IF b.sell_price # NoVal THEN b.sell_price
                 ELSE IF b.bid_price # NoVal THEN b.bid_price
                 ELSE IF b.payout # NoVal THEN b.payout
                 ELSE IF b.buy_price # NoVal THEN b.buy_price
                 ELSE 0
    IN IF first = 0 /\ b.profit # NoVal THEN stake + b.profit ELSE first

FrameResult(b, stake) == IF FramePayout(b, stake) - stake > 0 THEN "WON" ELSE "LOST"

\* position the frame resolves to: get_position(uuid) or get_position(contract_id)
FramePosition(p, data) ==
    IF get_position(p, data.id) # NoPos THEN get_position(p, data.id)
    ELSE get_position(p, data.contract_id)

\* the reader task is inside a listener that is suspended in place_trade
ReaderBusy == tickPc # "idle"

Bump(f, t) == [f EXCEPT ![t] = @ + 1]

ExecInit ==
    /\ trades = <<>>
    /\ tradeDb = [t \in TradeIds |-> NoTrade]
    /\ placing = {}
    /\ brokerBuys = 0
    /\ nextCid = 1
    /\ cleanup = [pc |-> "idle", pending |-> {}, marked |-> {}]
    /\ riskApplied = [t \in TradeIds |-> 0]
    /\ perfCalls = [t \in TradeIds |-> 0]
    /\ trainCalls = [t \in TradeIds |-> 0]
    /\ soldSeen = NoFrame
    /\ soldTrade = 0
    /\ soldTwice = FALSE
    /\ soldTwiceChanged = FALSE
    /\ persistFailed = [t \in TradeIds |-> 0]

PMVarsInit ==
    /\ pm = PMInit
    /\ everUuid = [c \in Cids |-> {}]
    /\ closedCids = {}

BotInit ==
    /\ running = FALSE
    /\ tickRegistered = FALSE
    /\ tickPc = "idle"
    /\ intervalElapsed = TRUE

\* trade ids are handed out in creation order (uuid4 in the code: always fresh)
CreatedIds == {t \in TradeIds : tradeDb[t].status # "NONE"}
FreshTradeId == Cardinality(CreatedIds) + 1

\* place_trade up to and including "await deriv.send(buy)": order_executor.py:470-510
PlaceTradeSend(side, caller) ==
    LET t == FreshTradeId
        deriv_type == _map_to_deriv_contract_type(side)
        user_side == _map_from_deriv_contract_type(deriv_type)
    IN /\ t \in TradeIds
       /\ tradeDb' = [tradeDb EXCEPT ![t] = [status |-> "PENDING", side |-> user_side,
                                             amount |-> TRADE_AMOUNT, aged |-> FALSE]]
       /\ placing' = placing \cup {[id |-> t, side |-> user_side,
                                     deriv_side |-> deriv_type, caller |-> caller]}
       /\ brokerBuys' = brokerBuys + 1

\* place_trade after the send returned: order_executor.py:512-521
PlaceTradeRegister(c) ==
    /\ placing' = placing \ {c}
    /\ trades' = Append(trades, [id |-> c.id, side |-> c.side,
                                 deriv_side |-> c.deriv_side, amount |-> TRADE_AMOUNT,
                                 awaiting_contract |-> TRUE, contract_id |-> NoId])

\* Mutant: the acknowledgement is matched to the newest awaiting entry.
LastAwaiting ==
    IF \E i \in 1..Len(trades) : trades[i].awaiting_contract
    THEN CHOOSE i \in 1..Len(trades) :
            /\ trades[i].awaiting_contract
            /\ \A j \in (i + 1)..Len(trades) : ~trades[j].awaiting_contract
    ELSE 0

\* index of the first entry of self.trades that is still awaiting a contract, 0 if none
FirstAwaiting ==
    IF \E i \in 1..Len(trades) : trades[i].awaiting_contract
    THEN CHOOSE i \in 1..Len(trades) :
            /\ trades[i].awaiting_contract
            /\ \A j \in 1..(i - 1) : ~trades[j].awaiting_contract
    ELSE 0

SetStatus(db, t, st) == [db EXCEPT ![t].status = st]

(***************************************************************************)
(* Direct place_trade call (api/routes.py manual_trade): no admission gate *)
(***************************************************************************)
ManualPlaceSend ==
    /\ \E side \in {"CALL", "PUT", "RISE", "FALL"} : PlaceTradeSend(side, "route")
    /\ UNCHANGED <<trades, nextCid, cleanup, riskApplied, perfCalls, trainCalls,
                   soldSeen, soldTrade, soldTwice, soldTwiceChanged,
                   persistFailed>>
    /\ UNCHANGED <<pmVars, botVars, riskVars, connVars, dispVars, sendVars, consVars, loopVars>>

ManualPlaceRegister ==
    /\ \E c \in placing : c.caller = "route" /\ PlaceTradeRegister(c)
    /\ UNCHANGED <<tradeDb, brokerBuys, nextCid, cleanup, riskApplied, perfCalls,
                   trainCalls, soldSeen, soldTrade, soldTwice, soldTwiceChanged,
                   persistFailed>>
    /\ UNCHANGED <<pmVars, botVars, riskVars, connVars, dispVars, sendVars, consVars, loopVars>>

(***************************************************************************)
(* _handle_buy with a contract_id and no error: order_executor.py:107-169  *)
(* The broker answers a buy request it holds with a fresh contract id.     *)
(***************************************************************************)
HandleBuyAck ==
    /\ ~ReaderBusy
    /\ brokerBuys > 0
    /\ nextCid \in Cids
    /\ brokerBuys' = brokerBuys - 1
    /\ nextCid' = nextCid + 1
    /\ LET i == FirstAwaiting IN
       IF i = 0
       THEN UNCHANGED <<trades, tradeDb, pm>>
       ELSE /\ tradeDb' = SetStatus(tradeDb, trades[i].id, "ACTIVE")
            /\ pm' = add_position(pm, trades[i].id, nextCid, trades[i].side,
                                  trades[i].amount)
            /\ trades' = [trades EXCEPT ![i].awaiting_contract = FALSE,
                                        ![i].contract_id = nextCid]
    /\ UNCHANGED <<placing, cleanup, riskApplied, perfCalls, trainCalls,
                   soldSeen, soldTrade, soldTwice, soldTwiceChanged, persistFailed,
                   everUuid, closedCids>>
    /\ UNCHANGED <<botVars, riskVars, connVars, dispVars, sendVars, consVars, loopVars>>

(***************************************************************************)
(* _handle_buy with an error / _handle_buy_error: order_executor.py:86-105,*)
(* 171-192                                                                 *)
(***************************************************************************)
\* Mutant: the error is applied to every awaiting trade.
HandleBuyErrorAll ==
    /\ ~ReaderBusy
    /\ brokerBuys > 0
    /\ brokerBuys' = brokerBuys - 1
    /\ tradeDb' = [t \in TradeIds |->
                      IF \E i \in 1..Len(trades) :
                            trades[i].id = t /\ trades[i].awaiting_contract
                      THEN [tradeDb[t] EXCEPT !.status = "REJECTED"]
                      ELSE tradeDb[t]]
    /\ trades' = [i \in 1..Len(trades) |-> [trades[i] EXCEPT !.awaiting_contract = FALSE]]
    /\ UNCHANGED <<placing, nextCid, cleanup, riskApplied, perfCalls, trainCalls,
                   soldSeen, soldTrade, soldTwice, soldTwiceChanged,
                   persistFailed>>
    /\ UNCHANGED <<pmVars, botVars, riskVars, connVars, dispVars, sendVars, consVars, loopVars>>

HandleBuyError ==
    /\ ~ReaderBusy
    /\ brokerBuys > 0
    /\ brokerBuys' = brokerBuys - 1
    /\ LET i == FirstAwaiting IN
       IF i = 0
       THEN UNCHANGED <<trades, tradeDb>>
       ELSE /\ tradeDb' = SetStatus(tradeDb, trades[i].id, "REJECTED")
            /\ trades' = [trades EXCEPT ![i].awaiting_contract = FALSE]
    /\ UNCHANGED <<placing, nextCid, cleanup, riskApplied, perfCalls, trainCalls,
                   soldSeen, soldTrade, soldTwice, soldTwiceChanged,
                   persistFailed>>
    /\ UNCHANGED <<pmVars, botVars, riskVars, connVars, dispVars, sendVars, consVars, loopVars>>

(***************************************************************************)
(* _handle_contract_update: order_executor.py:219-393                      *)
(* The call self.risk.update_trade_outcome(result, trade.amount,           *)
(* actual_profit) passes SettlementUpdateArgs positional arguments to a    *)
(* method that accepts UpdateTradeOutcomeParams: when they differ the call *)
(* raises TypeError, which leaves the handler and is caught and logged by  *)
(* _ws_listener (order_executor.py:69-70).                                 *)
(* The broker echoes the contract type that was bought, or sends none.     *)
(***************************************************************************)
SettlementCallBinds == SettlementUpdateArgs = UpdateTradeOutcomeParams

HandleContractUpdate(data) ==
    LET cleaned == is_cleaned(pm, data.id) \/ is_cleaned(pm, data.contract_id)
        pos == FramePosition(pm, data)
        live == ~cleaned /\ pos # NoPos
        records == live /\ data.id # NoId /\ pos.uuid = NoId
        pm1 == IF records THEN update_contract_uuid(pm, pos.contract_id, data.id) ELSE pm
        sold == live /\ FrameIsSold(data.body)
        t == pos.trade_id
        result == FrameResult(data.body, pos.entry_price)
        direction == _map_from_deriv_contract_type(data.body.contract_type)
        ident == IF data.id # NoId THEN data.id ELSE data.contract_id
        feedback == sold /\ SettlementCallBinds
        closes == feedback /\ get_position(pm1, ident) # NoPos
    IN /\ ~ReaderBusy
       /\ feedback => riskApplied[t] < MaxCalls
       /\ live => data.body.contract_type
                      \in {"UNKNOWN", _map_to_deriv_contract_type(pos.side)}
       /\ pm' = IF feedback THEN mark_closed(pm1, ident) ELSE pm1
       /\ everUuid' = IF records
                      THEN [everUuid EXCEPT ![pos.contract_id] = @ \cup {data.id}]
                      ELSE everUuid
       /\ closedCids' = IF closes THEN closedCids \cup {pos.contract_id} ELSE closedCids
       /\ tradeDb' = IF sold
                     THEN [tradeDb EXCEPT ![t].status = result, ![t].side = direction]
                     ELSE tradeDb
       /\ riskApplied' = IF feedback THEN Bump(riskApplied, t) ELSE riskApplied
       /\ perfCalls' = IF feedback THEN Bump(perfCalls, t) ELSE perfCalls
       /\ trainCalls' = IF feedback THEN Bump(trainCalls, t) ELSE trainCalls
       /\ soldSeen' = IF soldSeen = NoFrame /\ sold /\ data.body.is_sold
                      THEN data ELSE soldSeen
       /\ soldTrade' = IF soldSeen = NoFrame /\ sold /\ data.body.is_sold
                       THEN t ELSE soldTrade
       /\ soldTwice' = (soldTwice \/ data = soldSeen)
       /\ soldTwiceChanged' =
              (soldTwiceChanged
                  \/ (data = soldSeen
                        /\ <<pm, tradeDb, riskApplied, perfCalls, trainCalls>>'
                             # <<pm, tradeDb, riskApplied, perfCalls, trainCalls>>))
       /\ UNCHANGED <<trades, placing, brokerBuys, nextCid, cleanup, persistFailed>>
       /\ UNCHANGED <<botVars, riskVars, connVars, dispVars, sendVars, consVars, loopVars>>

ContractUpdate == \E data \in ContractFrames : HandleContractUpdate(data)

(***************************************************************************)
(* _handle_contract_update when the persistence of the terminal state      *)
(* raises.  TradeRepo.update (db/repositories/trade_repo.py:26-34) and     *)
(* ContractRepo.update commit inside try/finally with no except clause, and*)
(* the handler has no try around lines 271-274 and 341, so the exception   *)
(* leaves the handler there and is logged by _ws_listener (69-70).         *)
(* at = "trade": TradeRepo.update raised (274), the row keeps its status;  *)
(* at = "contract": ContractRepo.update raised (341), the row is written.  *)
(***************************************************************************)
PersistFailurePoints == {"trade", "contract"}

HandleContractUpdatePersistFails(data, at) ==
    LET cleaned == is_cleaned(pm, data.id) \/ is_cleaned(pm, data.contract_id)
        pos == FramePosition(pm, data)
        live == ~cleaned /\ pos # NoPos
        records == live /\ data.id # NoId /\ pos.uuid = NoId
        pm1 == IF records THEN update_contract_uuid(pm, pos.contract_id, data.id) ELSE pm
        sold == live /\ FrameIsSold(data.body)
        t == pos.trade_id
        result == FrameResult(data.body, pos.entry_price)
        direction == _map_from_deriv_contract_type(data.body.contract_type)
    IN /\ ~ReaderBusy
       /\ sold
       /\ persistFailed[t] < MaxCalls
       /\ data.body.contract_type \in {"UNKNOWN", _map_to_deriv_contract_type(pos.side)}
       /\ pm' = pm1
       /\ everUuid' = IF records
                      THEN [everUuid EXCEPT ![pos.contract_id] = @ \cup {data.id}]
                      ELSE everUuid
       /\ tradeDb' = IF at = "contract"
                     THEN [tradeDb EXCEPT ![t].status = result, ![t].side = direction]
                     ELSE tradeDb
       /\ persistFailed' = Bump(persistFailed, t)
       /\ UNCHANGED <<trades, placing, brokerBuys, nextCid, cleanup, riskApplied, perfCalls,
                      trainCalls, soldSeen, soldTrade, soldTwice, soldTwiceChanged,
                      closedCids>>
       /\ UNCHANGED <<botVars, riskVars, connVars, dispVars, sendVars, consVars, loopVars>>

ContractUpdatePersistFails ==
    \E data \in ContractFrames, at \in PersistFailurePoints :
        HandleContractUpdatePersistFails(data, at)

(***************************************************************************)
(* TradingBot._cleanup_expired_trades: bot.py:517-555                      *)
(***************************************************************************)
CleanupCallBinds == CleanupUpdateArgs = UpdateTradeOutcomeParams

\* the query: ACTIVE trades created more than three minutes ago
CleanupQuery ==
    /\ running
    /\ cleanup.pc = "idle"
    /\ LET expired == {t \in TradeIds : tradeDb[t].status = "ACTIVE" /\ tradeDb[t].aged}
       IN /\ expired # {}
          /\ cleanup' = [pc |-> "marking", pending |-> expired, marked |-> {}]
    /\ UNCHANGED <<trades, tradeDb, placing, brokerBuys, nextCid, riskApplied, perfCalls,
                   trainCalls, soldSeen, soldTrade, soldTwice, soldTwiceChanged,
                   persistFailed>>
    /\ UNCHANGED <<pmVars, botVars, riskVars, connVars, dispVars, sendVars, consVars, loopVars>>

\* one iteration of the loop, up to its "await broadcast_trade_update"
CleanupMark ==
    /\ cleanup.pc = "marking"
    /\ \E t \in cleanup.pending :
          /\ riskApplied[t] < MaxCalls
          /\ IF CleanupCallBinds
             THEN /\ riskApplied' = Bump(riskApplied, t)
                  /\ cleanup' = [cleanup EXCEPT !.pending = @ \ {t},
                                                !.marked = @ \cup {t}]
             ELSE /\ riskApplied' = riskApplied
                  /\ cleanup' = [pc |-> "idle", pending |-> {}, marked |-> {}]
    /\ UNCHANGED <<trades, tradeDb, placing, brokerBuys, nextCid, perfCalls,
                   trainCalls, soldSeen, soldTrade, soldTwice, soldTwiceChanged,
                   persistFailed>>
    /\ UNCHANGED <<pmVars, botVars, riskVars, connVars, dispVars, sendVars, consVars, loopVars>>

\* db.commit(): the session writes status = "LOST" for every trade it marked
CleanupCommit ==
    /\ cleanup.pc = "marking"
    /\ cleanup.pending = {}
    /\ tradeDb' = [t \in TradeIds |->
                      IF t \in cleanup.marked THEN [tradeDb[t] EXCEPT !.status = "LOST"]
                      ELSE tradeDb[t]]
    /\ cleanup' = [pc |-> "idle", pending |-> {}, marked |-> {}]
    /\ UNCHANGED <<trades, placing, brokerBuys, nextCid, riskApplied, perfCalls,
                   trainCalls, soldSeen, soldTrade, soldTwice, soldTwiceChanged,
                   persistFailed>>
    /\ UNCHANGED <<pmVars, botVars, riskVars, connVars, dispVars, sendVars, consVars, loopVars>>

\* db.commit() raises (the database is locked): the except clause of the
\* method logs it (bot.py:553-554), the rows keep their status, and the
\* outcomes already fed to the RiskManager (535) stay applied
CleanupCommitFails ==
    /\ cleanup.pc = "marking"
    /\ cleanup.pending = {}
    /\ cleanup.marked # {}
    /\ cleanup' = [pc |-> "idle", pending |-> {}, marked |-> {}]
    /\ UNCHANGED <<trades, tradeDb, placing, brokerBuys, nextCid, riskApplied, perfCalls,
                   trainCalls, soldSeen, soldTrade, soldTwice, soldTwiceChanged,
                   persistFailed>>
    /\ UNCHANGED <<pmVars, botVars, riskVars, connVars, dispVars, sendVars, consVars, loopVars>>

(***************************************************************************)
(* TradingBot.run / stop: bot.py:364-446, 490-515                          *)
(***************************************************************************)
BotRun ==
    /\ ~running
    /\ running' = TRUE
    /\ tickRegistered' = TRUE
    /\ UNCHANGED <<tickPc, intervalElapsed>>
    /\ UNCHANGED <<pmVars, exVars, riskVars, connVars, dispVars, sendVars, consVars, loopVars>>

\* remove_listener first, then running = False.  self._bot_task is None (it is
\* assigned nowhere: routes.py:167 creates the task and drops it), so no task
\* is cancelled and a cleanup suspended in the run loop goes on to its commit
BotStop ==
    /\ running
    /\ tickRegistered' = FALSE
    /\ running' = FALSE
    /\ UNCHANGED <<tickPc, intervalElapsed>>
    /\ UNCHANGED <<trades, tradeDb, placing, brokerBuys, nextCid, cleanup, riskApplied, perfCalls,
                   trainCalls, soldSeen, soldTrade, soldTwice, soldTwiceChanged,
                   persistFailed>>
    /\ UNCHANGED <<pmVars, riskVars, connVars, dispVars, sendVars, consVars, loopVars>>

(***************************************************************************)
(* The run-loop tasks: routes.py:161-184, bot.py:364-488, 490-515          *)
(* start_bot creates a task for run() and keeps no reference to it;        *)
(* self._bot_task stays None, so stop() cancels nothing and a loop ends    *)
(* only by reading running = False at its while test.                      *)
(***************************************************************************)
LoopIds == 1..MaxLoops

LoopInit ==
    /\ loopPc = [l \in LoopIds |-> [pc |-> "none", iters |-> 0]]
    /\ stoppedLoops = {}

\* the tasks that are inside run(), past its guard and not returned
InsideRun == {l \in LoopIds : loopPc[l].pc \in {"starting", "looping"}}

\* POST /start: "if not trading_bot.running: asyncio.create_task(trading_bot.run())"
StartRoute ==
    /\ ~running
    /\ \E l \in LoopIds :
          /\ loopPc[l].pc = "none"
          /\ \A k \in 1..(l - 1) : loopPc[k].pc # "none"
          /\ loopPc' = [loopPc EXCEPT ![l].pc = "created"]
    /\ UNCHANGED <<running, tickRegistered, tickPc, intervalElapsed, stoppedLoops>>
    /\ UNCHANGED <<pmVars, exVars, riskVars, connVars, dispVars, sendVars, consVars>>

\* the task starts: "if self.running: return" and "self.running = True" (366-370)
RunBegin(l) ==
    /\ loopPc[l].pc = "created"
    /\ loopPc' = [loopPc EXCEPT ![l].pc = IF running THEN "exited" ELSE "starting"]
    /\ running' = TRUE
    /\ UNCHANGED <<tickRegistered, tickPc, intervalElapsed, stoppedLoops>>
    /\ UNCHANGED <<pmVars, exVars, riskVars, connVars, dispVars, sendVars, consVars>>

\* connected and authorised after the awaits of 383-437; the tick listener is
\* added (444) and the task comes to its while test
RunEnterLoop(l) ==
    /\ loopPc[l].pc = "starting"
    /\ loopPc' = [loopPc EXCEPT ![l].pc = "looping"]
    /\ tickRegistered' = TRUE
    /\ UNCHANGED <<running, tickPc, intervalElapsed, stoppedLoops>>
    /\ UNCHANGED <<pmVars, exVars, riskVars, connVars, dispVars, sendVars, consVars>>

\* every connection attempt failed: "self.running = False; return" (398-400, 410-412)
RunConnectFails(l) ==
    /\ loopPc[l].pc = "starting"
    /\ loopPc' = [loopPc EXCEPT ![l].pc = "exited"]
    /\ running' = FALSE
    /\ UNCHANGED <<tickRegistered, tickPc, intervalElapsed, stoppedLoops>>
    /\ UNCHANGED <<pmVars, exVars, riskVars, connVars, dispVars, sendVars, consVars>>

\* "while self.running:" read after the sleep of the previous iteration (454,
\* 488): one more iteration, or the end of run()
LoopIterate(l) ==
    /\ loopPc[l].pc = "looping"
    /\ running => loopPc[l].iters < MaxIters
    /\ loopPc' = IF running THEN [loopPc EXCEPT ![l].iters = @ + 1]
                 ELSE [loopPc EXCEPT ![l].pc = "exited"]
    /\ UNCHANGED <<running, tickRegistered, tickPc, intervalElapsed, stoppedLoops>>
    /\ UNCHANGED <<pmVars, exVars, riskVars, connVars, dispVars, sendVars, consVars>>

\* POST /stop and stop(): the tick listener is removed, running = False; the
\* cancellation of 508-513 is guarded by self._bot_task, which is None, so the
\* run-loop tasks are left as they are
StopCall ==
    /\ running
    /\ tickRegistered' = FALSE
    /\ running' = FALSE
    /\ loopPc' = loopPc
    /\ stoppedLoops' = stoppedLoops \cup InsideRun
    /\ UNCHANGED <<tickPc, intervalElapsed>>
    /\ UNCHANGED <<pmVars, exVars, riskVars, connVars, dispVars, sendVars, consVars>>

(***************************************************************************)
(* TradingBot._tick_handler: bot.py:86-360.  The reader task awaits it, so *)
(* no other frame is dispatched until it returns.                          *)
(***************************************************************************)
\* entry: running check (89), time filter (133), then analysis, consensus and the
\* risk admission, up to the suspension in "await asyncio.sleep(0.1)" (289)
TickBegin ==
    /\ tickRegistered
    /\ tickPc = "idle"
    /\ running
    /\ intervalElapsed
    /\ tickPc' = "suspended"
    /\ UNCHANGED <<running, tickRegistered, intervalElapsed>>
    /\ UNCHANGED <<pmVars, exVars, riskVars, connVars, dispVars, sendVars, consVars, loopVars>>

\* the price moved during the sleep: return without trading (291-294)
TickSkip ==
    /\ tickPc = "suspended"
    /\ tickPc' = "idle"
    /\ UNCHANGED <<running, tickRegistered, intervalElapsed>>
    /\ UNCHANGED <<pmVars, exVars, riskVars, connVars, dispVars, sendVars, consVars, loopVars>>

\* resumed after the sleep: order_executor.place_trade is called (308)
TickPlaceTrade ==
    /\ tickPc = "suspended"
    /\ \E side \in {"CALL", "PUT"} : PlaceTradeSend(side, "tick")
    /\ tickPc' = "placing"
    /\ UNCHANGED <<running, tickRegistered, intervalElapsed>>
    /\ UNCHANGED <<trades, nextCid, cleanup, riskApplied, perfCalls, trainCalls,
                   soldSeen, soldTrade, soldTwice, soldTwiceChanged,
                   persistFailed>>
    /\ UNCHANGED <<pmVars, riskVars, connVars, dispVars, sendVars, consVars, loopVars>>

\* place_trade returned: last_trade_time = time.time() (339)
TickPlaced ==
    /\ tickPc = "placing"
    /\ \E c \in placing : c.caller = "tick" /\ PlaceTradeRegister(c)
    /\ intervalElapsed' = FALSE
    /\ tickPc' = "idle"
    /\ UNCHANGED <<running, tickRegistered>>
    /\ UNCHANGED <<tradeDb, brokerBuys, nextCid, cleanup, riskApplied, perfCalls,
                   trainCalls, soldSeen, soldTrade, soldTwice, soldTwiceChanged,
                   persistFailed>>
    /\ UNCHANGED <<pmVars, riskVars, connVars, dispVars, sendVars, consVars, loopVars>>

(***************************************************************************)
(* Passage of time                                                         *)
(***************************************************************************)
\* min_trade_interval seconds have passed since last_trade_time
IntervalElapses ==
    /\ ~intervalElapsed
    /\ intervalElapsed' = TRUE
    /\ UNCHANGED <<running, tickRegistered, tickPc>>
    /\ UNCHANGED <<pmVars, exVars, riskVars, connVars, dispVars, sendVars, consVars, loopVars>>

\* the oldest trade not yet three minutes old becomes three minutes old
ThreeMinutesPass ==
    /\ \E t \in CreatedIds :
          /\ ~tradeDb[t].aged
          /\ \A u \in CreatedIds : u < t => tradeDb[u].aged
          /\ (t = Cardinality(CreatedIds)) => intervalElapsed
          /\ tradeDb' = [tradeDb EXCEPT ![t].aged = TRUE]
    /\ UNCHANGED <<trades, placing, brokerBuys, nextCid, cleanup, riskApplied, perfCalls,
                   trainCalls, soldSeen, soldTrade, soldTwice, soldTwiceChanged,
                   persistFailed>>
    /\ UNCHANGED <<pmVars, botVars, riskVars, connVars, dispVars, sendVars, consVars, loopVars>>

(***************************************************************************)
(* RiskManager: core/risk_manager.py.  Amounts are integer cents,          *)
(* percentages are integer percents, None is NoVal.                        *)
(***************************************************************************)
MAX_TRADES_PER_HOUR == 20
MAX_TRADES == 100
DAILY_LOSS_LIMIT_PCT == 10
DAILY_PROFIT_LIMIT_PCT == 10
COOLDOWN_AFTER_LOSS == 3
COOLDOWN_AFTER_WIN == 1
RECOVERY_ENABLED == TRUE
RECOVERY_MULTIPLIER == 2
MAX_RECOVERY_STREAK == 4
MAX_RECOVERY_AMOUNT_MULTIPLIER == 5
RESET_ON_WIN == TRUE
SMART_RECOVERY == TRUE

\* RiskConfig defaults that __init__ does not override
max_recovery_pct_balance == 10
panic_lock_seconds == 1800
lock_auto_expiry_seconds == 3600
fib_sequence == <<1, 1, 2, 3, 5, 8>>

\* attributes set in __init__
base_amount == TRADE_AMOUNT
balance_floor_pct == 20
max_drawdown_pct == IF DAILY_LOSS_LIMIT_PCT > 15 THEN DAILY_LOSS_LIMIT_PCT ELSE 15
max_recovery_streak == MAX_RECOVERY_STREAK

RiskInit ==
    [state |-> "NORMAL",
     consecutive_losses |-> 0, consecutive_wins |-> 0, recovery_streak |-> 0,
     next_trade_amount |-> base_amount, total_losses |-> 0,
     trade_count_1h |-> 0, last_reset_time |-> 0,
     start_day_balance |-> NoVal, peak_balance |-> NoVal,
     last_trade_amount |-> base_amount,
     net_loss |-> 0, daily_loss |-> 0,
     daily_profit |-> 0,          \* in twentieths of a cent (payout factor 0.95)
     panic_until |-> NoVal, locked_until |-> NoVal]

\* Python truthiness of an optional number
Truthy(x) == x # NoVal /\ x # 0

Max(a, b) == IF a >= b THEN a ELSE b
Min(a, b) == IF a <= b THEN a ELSE b

\* amounts inside get_next_trade_amount are kept in 1/Scale cents so that the
\* division by 0.82 and the balance percentages stay exact
Scale == 82 * 100
\* round(amount, 2)
RoundCents(x) == (2 * x + Scale) \div (2 * Scale)

start_session(r, t, bal) ==
    [r EXCEPT !.start_day_balance = bal, !.peak_balance = bal,
              !.daily_loss = 0, !.daily_profit = 0, !.net_loss = 0,
              !.recovery_streak = 0, !.total_losses = 0,
              !.trade_count_1h = 0, !.last_reset_time = t,
              !.state = "NORMAL", !.panic_until = NoVal, !.locked_until = NoVal]

_enter_panic(r, t) ==
    [r EXCEPT !.state = "PANIC", !.panic_until = t + panic_lock_seconds]

_enter_lock(r, t) ==
    [r EXCEPT !.state = "LOCKED",
              !.locked_until = IF lock_auto_expiry_seconds > 0
                               THEN t + lock_auto_expiry_seconds ELSE @]

\* returns the manager after the call and the amount returned;
\* base_arg and bal_arg are NoVal when the caller omits them
get_next_trade_amount(r, t, base_arg, bal_arg) ==
    LET base == IF Truthy(base_arg) THEN base_arg ELSE base_amount
        bal == IF Truthy(bal_arg) THEN bal_arg ELSE 0
        fib_index == Min(r.recovery_streak - 1, Len(fib_sequence) - 1)
        fib_multiplier == fib_sequence[fib_index + 1]
        martingale_factor == IF r.recovery_streak >= 3 THEN RECOVERY_MULTIPLIER ELSE 1
        raw_amount == base * fib_multiplier * martingale_factor * Scale
        smart_amount == r.total_losses * 100 * 100
        raw2 == IF SMART_RECOVERY THEN Max(raw_amount, smart_amount) ELSE raw_amount
        max_amount == base_amount * MAX_RECOVERY_AMOUNT_MULTIPLIER * Scale
        a1 == Min(raw2, max_amount)
        a2 == IF bal > 0 THEN Min(a1, bal * max_recovery_pct_balance * 82) ELSE a1
        a3 == IF bal > 0 /\ r.recovery_streak > 2 THEN Min(a2, bal * 8 * 82) ELSE a2
    IN IF ~RECOVERY_ENABLED \/ r.recovery_streak = 0
       THEN [risk |-> r, amount |-> base]
       ELSE IF r.recovery_streak > max_recovery_streak
       THEN [risk |-> _enter_panic(r, t), amount |-> 0]
       ELSE [risk |-> r, amount |-> RoundCents(a3)]

\* Mutant: the recovery limits are not checked.
RecoveryLimitsUnchecked(r, bal) == TRUE

_check_recovery_limits(r, bal) ==
    /\ ~(r.recovery_streak >= max_recovery_streak)
    /\ ~(r.next_trade_amount * 100 > bal * max_recovery_pct_balance)
    /\ ~(r.next_trade_amount > base_amount * MAX_RECOVERY_AMOUNT_MULTIPLIER)

\* drawdown >= max_drawdown_pct, then >= max_drawdown_pct * panic_drawdown_ratio (0.8)
_check_drawdown(r, t) ==
    IF ~Truthy(r.peak_balance) \/ ~Truthy(r.start_day_balance) THEN r
    ELSE IF r.net_loss * 100 >= max_drawdown_pct * r.peak_balance
         THEN [r EXCEPT !.state = "LOCKED"]
    ELSE IF r.net_loss * 1000 >= max_drawdown_pct * 8 * r.peak_balance
         THEN _enter_panic(r, t)
    ELSE r

_check_daily_loss(r, t) ==
    IF Truthy(r.start_day_balance)
          /\ r.daily_loss * 100 >= r.start_day_balance * DAILY_LOSS_LIMIT_PCT
    THEN _enter_lock(r, t)
    ELSE r

\* Mutant: a win steps the recovery streak back by one instead of two.
OutcomeWonStepOne(r, t, trade_amount) ==
    LET r1 == [r EXCEPT !.trade_count_1h =
                            IF RECOVERY_ENABLED /\ r.recovery_streak > 0 THEN @ + 1 ELSE @,
                        !.consecutive_losses = 0,
                        !.consecutive_wins = @ + 1,
                        !.total_losses = Max(0, @ - trade_amount),
                        !.net_loss = Max(0, @ - trade_amount),
                        !.daily_profit = @ + trade_amount * 19]
        profit_locks == Truthy(r1.start_day_balance)
                           /\ r1.daily_profit * 5
                                 >= DAILY_PROFIT_LIMIT_PCT * r1.start_day_balance
        r2 == IF profit_locks
              THEN [r1 EXCEPT !.state = "LOCKED", !.locked_until = t + 3600]
              ELSE r1
        r3 == [r2 EXCEPT !.recovery_streak = Max(0, @ - 1)]
    IN IF RESET_ON_WIN /\ r3.recovery_streak = 0
       THEN [r3 EXCEPT !.total_losses = 0, !.next_trade_amount = base_amount,
                       !.state = "NORMAL"]
       ELSE r3

\* the WON branch: risk_manager.py:335-375
OutcomeWon(r, t, trade_amount) ==
    LET r1 == [r EXCEPT !.trade_count_1h =
                            IF RECOVERY_ENABLED /\ r.recovery_streak > 0 THEN @ + 1 ELSE @,
                        !.consecutive_losses = 0,
                        !.consecutive_wins = @ + 1,
                        !.total_losses = Max(0, @ - trade_amount),
                        !.net_loss = Max(0, @ - trade_amount),
                        !.daily_profit = @ + trade_amount * 19]
        profit_locks == Truthy(r1.start_day_balance)
                           /\ r1.daily_profit * 5
                                 >= DAILY_PROFIT_LIMIT_PCT * r1.start_day_balance
        r2 == IF profit_locks
              THEN [r1 EXCEPT !.state = "LOCKED", !.locked_until = t + 3600]
              ELSE r1
        r3 == [r2 EXCEPT !.recovery_streak = Max(0, @ - 2)]
    IN IF RESET_ON_WIN /\ r3.recovery_streak = 0
       THEN [r3 EXCEPT !.total_losses = 0, !.next_trade_amount = base_amount,
                       !.state = "NORMAL"]
       ELSE r3

\* the LOST branch: risk_manager.py:378-418
OutcomeLost(r, t, trade_amount) ==
    LET r1 == [r EXCEPT !.consecutive_losses = @ + 1,
                        !.consecutive_wins = 0,
                        !.daily_loss = @ + trade_amount,
                        !.net_loss = @ + trade_amount,
                        !.total_losses = @ + trade_amount,
                        !.recovery_streak = @ + 1]
        sized == get_next_trade_amount(r1, t, NoVal, NoVal)
    IN IF RECOVERY_ENABLED
       THEN [sized.risk EXCEPT !.next_trade_amount = sized.amount,
                               !.state = "RECOVERY"]
       ELSE [r1 EXCEPT !.next_trade_amount =
                          IF r1.consecutive_losses >= 2
                          THEN Min((trade_amount * 3) \div 2, base_amount * 3)
                          ELSE base_amount]

update_trade_outcome(r, t, trade_result, trade_amount) ==
    LET r0 == [r EXCEPT !.trade_count_1h =
                            IF ~(RECOVERY_ENABLED /\ r.recovery_streak > 0) THEN @ + 1 ELSE @,
                        !.last_trade_amount = trade_amount]
        r1 == IF trade_result = "WON" THEN OutcomeWon(r0, t, trade_amount)
              ELSE IF trade_result = "LOST" THEN OutcomeLost(r0, t, trade_amount)
              ELSE [r0 EXCEPT !.next_trade_amount = base_amount]
    IN _check_daily_loss(_check_drawdown(r1, t), t)

manual_unlock(r) ==
    IF r.state = "LOCKED" THEN [r EXCEPT !.state = "NORMAL", !.locked_until = NoVal]
    ELSE r

reset_streak(r) ==
    [r EXCEPT !.consecutive_losses = 0, !.consecutive_wins = 0, !.recovery_streak = 0,
              !.total_losses = 0, !.next_trade_amount = base_amount,
              !.state = "NORMAL", !.panic_until = NoVal]

\* allow_trade: risk_manager.py:161-262.  Returns the manager after the call and
\* the boolean returned.
AllowAfterTrackers(r, t, current_open_count, bal) ==
    LET hourly == IF t - r.last_reset_time > 3600
                  THEN [r EXCEPT !.trade_count_1h = 0, !.last_reset_time = t]
                  ELSE r
        in_recovery == RECOVERY_ENABLED /\ r.recovery_streak > 0
        drawdown_locks == (hourly.peak_balance - bal) * 100
                              >= max_drawdown_pct * hourly.peak_balance
        drawdown_panics == (hourly.peak_balance - bal) * 1000
                              >= max_drawdown_pct * 8 * hourly.peak_balance
        last == IF drawdown_panics THEN _enter_panic(hourly, t) ELSE hourly
    IN IF in_recovery /\ ~_check_recovery_limits(r, bal)
       THEN [risk |-> r, allowed |-> FALSE]
       ELSE IF ~in_recovery /\ hourly.trade_count_1h >= MAX_TRADES_PER_HOUR
       THEN [risk |-> hourly, allowed |-> FALSE]
       ELSE IF current_open_count >= MAX_TRADES
       THEN [risk |-> hourly, allowed |-> FALSE]
       ELSE IF bal * 100 < bal * (balance_floor_pct + r.recovery_streak)
       THEN [risk |-> hourly, allowed |-> FALSE]
       ELSE IF (bal - hourly.start_day_balance) * 100
                  <= -(DAILY_LOSS_LIMIT_PCT * hourly.start_day_balance)
       THEN [risk |-> _enter_lock(hourly, t), allowed |-> FALSE]
       ELSE IF drawdown_locks
       THEN [risk |-> [hourly EXCEPT !.state = "LOCKED"], allowed |-> FALSE]
       ELSE IF COOLDOWN_AFTER_LOSS > 0 /\ r.consecutive_losses >= COOLDOWN_AFTER_LOSS
       THEN [risk |-> last, allowed |-> FALSE]
       ELSE IF COOLDOWN_AFTER_WIN > 0 /\ r.consecutive_wins >= COOLDOWN_AFTER_WIN
       THEN [risk |-> last, allowed |-> FALSE]
       ELSE IF bal * 5 < r.next_trade_amount * 6
       THEN [risk |-> last, allowed |-> FALSE]
       ELSE [risk |-> last, allowed |-> TRUE]

allow_trade(r, t, current_open_count, bal) ==
    LET r1 == IF r.state = "LOCKED" /\ Truthy(r.locked_until) /\ t >= r.locked_until
              THEN [r EXCEPT !.state = "NORMAL", !.locked_until = NoVal]
              ELSE r
        r2 == IF r1.state = "PANIC" THEN [r1 EXCEPT !.state = "NORMAL"] ELSE r1
        r3 == [r2 EXCEPT !.start_day_balance = IF @ = NoVal THEN bal ELSE @,
                         !.peak_balance = IF @ = NoVal THEN bal
                                          ELSE IF bal > @ THEN bal ELSE @]
    IN IF r1.state = "LOCKED"
       THEN [risk |-> r1, allowed |-> FALSE]
       ELSE IF r1.state = "PANIC"
                 /\ t < (IF Truthy(r1.panic_until) THEN r1.panic_until ELSE 0)
       THEN [risk |-> r1, allowed |-> FALSE]
       ELSE AllowAfterTrackers(r3, t, current_open_count, bal)

(***************************************************************************)
(* RiskManager driven through its public methods                           *)
(***************************************************************************)
\* account balances at start, open-position counts and stakes fed to the manager
Balances == {2000, 10000}
OpenCounts == {0, MAX_TRADES}
TradeAmounts == {100, 800}
LargeTradeAmounts == {100, 2000}
ClockStep == panic_lock_seconds

RiskVarsInit ==
    /\ risk = RiskInit
    /\ balance \in Balances
    /\ now = 0
    /\ outcomes = 0
    /\ sinceUpdate = FALSE

\* bot.py:428
RiskStartSession ==
    /\ risk' = start_session(risk, now, balance)
    /\ sinceUpdate' = FALSE
    /\ UNCHANGED <<balance, now, outcomes>>
    /\ UNCHANGED <<pmVars, exVars, botVars, connVars, dispVars, sendVars, consVars, loopVars>>

\* a settled trade: the account moves by the stake or by the payout, and the
\* outcome is fed to update_trade_outcome
RiskOutcomeOf(amounts) ==
    /\ outcomes < MaxOutcomes
    /\ \E trade_result \in {"WON", "LOST"}, trade_amount \in amounts :
          /\ trade_amount <= balance
          /\ risk' = update_trade_outcome(risk, now, trade_result, trade_amount)
          /\ balance' = IF trade_result = "WON"
                        THEN balance + (trade_amount * 19) \div 20
                        ELSE balance - trade_amount
    /\ outcomes' = outcomes + 1
    /\ sinceUpdate' = TRUE
    /\ UNCHANGED now
    /\ UNCHANGED <<pmVars, exVars, botVars, connVars, dispVars, sendVars, consVars, loopVars>>

RiskOutcome == RiskOutcomeOf(TradeAmounts)

\* the same call with a stake large enough for one win to reach the daily
\* profit limit of a 100.00 session
RiskOutcomeLarge == RiskOutcomeOf(LargeTradeAmounts)

\* bot.py:283
RiskAllowTrade ==
    /\ \E current_open_count \in OpenCounts :
          risk' = allow_trade(risk, now, current_open_count, balance).risk
    /\ sinceUpdate' = FALSE
    /\ UNCHANGED <<balance, now, outcomes>>
    /\ UNCHANGED <<pmVars, exVars, botVars, connVars, dispVars, sendVars, consVars, loopVars>>

\* bot.py:275, routes.py:618: get_next_trade_amount() without arguments
RiskSize ==
    /\ risk' = get_next_trade_amount(risk, now, NoVal, NoVal).risk
    /\ sinceUpdate' = FALSE
    /\ UNCHANGED <<balance, now, outcomes>>
    /\ UNCHANGED <<pmVars, exVars, botVars, connVars, dispVars, sendVars, consVars, loopVars>>

\* routes.py:527
RiskManualUnlock ==
    /\ risk' = manual_unlock(risk)
    /\ sinceUpdate' = FALSE
    /\ UNCHANGED <<balance, now, outcomes>>
    /\ UNCHANGED <<pmVars, exVars, botVars, connVars, dispVars, sendVars, consVars, loopVars>>

\* bot.py:429, routes.py:521
RiskResetStreak ==
    /\ risk' = reset_streak(risk)
    /\ sinceUpdate' = FALSE
    /\ UNCHANGED <<balance, now, outcomes>>
    /\ UNCHANGED <<pmVars, exVars, botVars, connVars, dispVars, sendVars, consVars, loopVars>>

ClockAdvance ==
    /\ now < MaxClockSteps * ClockStep
    /\ now' = now + ClockStep
    /\ UNCHANGED <<risk, balance, outcomes, sinceUpdate>>
    /\ UNCHANGED <<pmVars, exVars, botVars, connVars, dispVars, sendVars, consVars, loopVars>>

NextRisk ==
    \/ RiskStartSession
    \/ RiskOutcome
    \/ RiskAllowTrade
    \/ RiskSize
    \/ RiskManualUnlock
    \/ RiskResetStreak
    \/ ClockAdvance

(***************************************************************************)
(* DerivAPIClient, single-user connection: core/deriv_api.py:47-120        *)
(* Tasks are numbered: reader tasks 1..MaxReaders, callers of connect()    *)
(* (bot.run, send, authorize) from 11.  conn.lock is the task holding      *)
(* _connection_lock, 0 when free; conn.reader_task is 0 for None.          *)
(***************************************************************************)
ReaderIds == 1..MaxReaders
Callers == 11..(10 + MaxCallers)

ConnInit ==
    /\ conn = [ws |-> "none", sockets |-> 0, authorized |-> FALSE,
               reader_task |-> 0, lock |-> 0]
    /\ readerPc = [r \in ReaderIds |-> [pc |-> "none", sock |-> 0]]
    /\ callerPc = [p \in Callers |-> "idle"]

\* the reader is between the return of its last listener (or of _recv, when no
\* listener is registered) and the end of handle_incoming: it does not suspend
\* there (104-110, 150-177), so no other task of the loop runs
ReaderCommitted == dispatch.pc = "internal"

\* the socket a reader is blocked on has been closed
SockClosed(c, k) == k < c.sockets \/ c.ws = "closed"

LiveReaders == {r \in ReaderIds : readerPc[r].pc \notin {"none", "done"}}

\* Mutant: the reader is started on every connect.
ReaderNeededAlways(c, pcs) == TRUE

\* self._reader_task is None or self._reader_task.done()
ReaderNeeded(c, pcs) == c.reader_task = 0 \/ pcs[c.reader_task].pc = "done"

\* connect() from its entry, with the lock acquired, to its first suspension:
\* returns at once when the socket is open, otherwise holds the lock while
\* websockets.connect is awaited
connect_enter(c, task) ==
    IF c.ws = "open" THEN c ELSE [c EXCEPT !.lock = task]

\* websockets.connect returned: deriv_api.py:64-70
connect_established(c, pcs) ==
    LET fresh == CHOOSE r \in ReaderIds :
                     /\ pcs[r].pc = "none"
                     /\ \A q \in ReaderIds : pcs[q].pc = "none" => r <= q
        starts == ReaderNeeded(c, pcs)
    IN [conn |-> [ws |-> "open", sockets |-> c.sockets + 1, authorized |-> FALSE,
                  reader_task |-> IF starts THEN fresh ELSE c.reader_task,
                  lock |-> 0],
        pcs |-> IF starts
                THEN [pcs EXCEPT ![fresh] = [pc |-> "recv", sock |-> c.sockets + 1]]
                ELSE pcs]

\* a task calls connect(): it queues on the lock when another task holds it
CallConnect(task, pc) ==
    IF conn.lock # 0 THEN [conn |-> conn, pc |-> "waiting"]
    ELSE [conn |-> connect_enter(conn, task),
          pc |-> IF conn.ws = "open" THEN "returned" ELSE "connecting"]

CallerStep(p) ==
    LET c == CallConnect(p, callerPc[p]) IN
    /\ ~ReaderCommitted
    /\ conn' = c.conn
    /\ callerPc' = [callerPc EXCEPT ![p] = IF c.pc = "returned" THEN "idle" ELSE c.pc]
    /\ UNCHANGED readerPc
    /\ UNCHANGED <<pmVars, exVars, botVars, riskVars, dispVars, sendVars, consVars, loopVars>>

\* bot.run, send() or authorize() calls connect(): bot.py:389, deriv_api.py:89, 137
CallerConnect == \E p \in Callers : callerPc[p] = "idle" /\ CallerStep(p)

\* a queued caller gets the lock
CallerAcquire == \E p \in Callers : callerPc[p] = "waiting" /\ conn.lock = 0 /\ CallerStep(p)

\* recv raises ConnectionClosed: authorized is cleared and the reader sleeps (113-115)
ReaderCloseSeen ==
    /\ \E r \in ReaderIds :
          /\ readerPc[r].pc = "recv"
          /\ SockClosed(conn, readerPc[r].sock)
          /\ readerPc' = [readerPc EXCEPT ![r].pc = "sleep"]
    /\ conn' = [conn EXCEPT !.authorized = FALSE]
    /\ UNCHANGED callerPc
    /\ UNCHANGED <<pmVars, exVars, botVars, riskVars, dispVars, sendVars, consVars, loopVars>>

\* the reader's own connect() call (118); the reader function returns after it
ReaderStep(r) ==
    LET c == CallConnect(r, readerPc[r].pc) IN
    /\ ~ReaderCommitted
    /\ conn' = c.conn
    /\ readerPc' = [readerPc EXCEPT ![r].pc = IF c.pc = "returned" THEN "done" ELSE c.pc]
    /\ UNCHANGED callerPc
    /\ UNCHANGED <<pmVars, exVars, botVars, riskVars, dispVars, sendVars, consVars, loopVars>>

ReaderReconnect == \E r \in ReaderIds : readerPc[r].pc = "sleep" /\ ReaderStep(r)

ReaderAcquire == \E r \in ReaderIds : readerPc[r].pc = "waiting" /\ conn.lock = 0 /\ ReaderStep(r)

\* the task holding the lock gets its socket
ConnectSucceeds ==
    /\ ~ReaderCommitted
    /\ conn.lock \in ReaderIds \cup Callers
    /\ LET task == conn.lock
           est == connect_established(conn, readerPc)
       IN /\ conn' = est.conn
          /\ readerPc' = IF task \in ReaderIds
                         THEN [est.pcs EXCEPT ![task].pc = "done"]
                         ELSE est.pcs
          /\ callerPc' = IF task \in Callers
                         THEN [callerPc EXCEPT ![task] = "idle"]
                         ELSE callerPc
    /\ authEvent' = FALSE
    /\ UNCHANGED <<listeners, dispatch, wire, framesSent, buyCall, authCall>>
    /\ UNCHANGED <<pmVars, exVars, botVars, riskVars, sendVars, consVars, loopVars>>

\* websockets.connect raises or times out: the lock is released, a caller sees
\* the exception, the reader logs it and returns (72-78, 119-120)
ConnectFails ==
    /\ ~ReaderCommitted
    /\ conn.lock \in ReaderIds \cup Callers
    /\ LET task == conn.lock IN
          /\ conn' = [conn EXCEPT !.lock = 0]
          /\ readerPc' = IF task \in ReaderIds
                         THEN [readerPc EXCEPT ![task].pc = "done"]
                         ELSE readerPc
          /\ callerPc' = IF task \in Callers
                         THEN [callerPc EXCEPT ![task] = "idle"]
                         ELSE callerPc
    /\ UNCHANGED <<pmVars, exVars, botVars, riskVars, dispVars, sendVars, consVars, loopVars>>

\* the transport closes (bounded by the sockets and reader tasks of the model)
TransportClose ==
    /\ conn.ws = "open"
    /\ conn.sockets < MaxSockets
    /\ \E r \in ReaderIds : readerPc[r].pc = "none"
    /\ conn' = [conn EXCEPT !.ws = "closed"]
    /\ UNCHANGED <<readerPc, callerPc>>
    /\ UNCHANGED <<pmVars, exVars, botVars, riskVars, dispVars, sendVars, consVars, loopVars>>

\* a reader dispatches the authorize response to handle_incoming (150-164)
AuthorizeOk ==
    /\ conn.ws = "open"
    /\ ~conn.authorized
    /\ \E r \in ReaderIds : readerPc[r].pc = "recv" /\ readerPc[r].sock = conn.sockets
    /\ conn' = [conn EXCEPT !.authorized = TRUE]
    /\ UNCHANGED <<readerPc, callerPc>>
    /\ UNCHANGED <<pmVars, exVars, botVars, riskVars, dispVars, sendVars, consVars, loopVars>>

NextConn ==
    \/ CallerConnect
    \/ CallerAcquire
    \/ ReaderCloseSeen
    \/ ReaderReconnect
    \/ ReaderAcquire
    \/ ConnectSucceeds
    \/ ConnectFails
    \/ TransportClose
    \/ AuthorizeOk

\* the broker accepts every connection attempt
NextConnAccepting ==
    \/ CallerConnect
    \/ CallerAcquire
    \/ ReaderCloseSeen
    \/ ReaderReconnect
    \/ ReaderAcquire
    \/ ConnectSucceeds
    \/ TransportClose
    \/ AuthorizeOk

(***************************************************************************)
(* DerivAPIClient.send() (deriv_api.py:87-92): connect(), then the write    *)
(* under _send_lock.  A write is two entries of the log, its beginning and *)
(* its end, with the suspension of ws.send between them.                   *)
(***************************************************************************)
\* frames begun in the send specification
MaxWrites == 3

SendInit ==
    /\ sendLock = 0
    /\ written = <<>>

\* Mutant: _send_lock lets every caller in.
send_lock_free_always(l) == TRUE

\* asyncio.Lock.acquire returns without waiting only when the lock is free
send_lock_free(l) == l = 0

FramesBegun == Cardinality({i \in 1..Len(written) : written[i][2] = "head"})

\* "async with self._send_lock:" entered: ws.send starts writing the frame
SendBegin(p) ==
    /\ sendLock' = p
    /\ written' = Append(written, <<p, "head">>)
    /\ callerPc' = [callerPc EXCEPT ![p] = "writing"]

\* send(): connect() returns at once on an open socket, then the caller takes
\* _send_lock or queues on it
SendEnter ==
    /\ ~ReaderCommitted
    /\ conn.ws = "open"
    /\ conn.lock = 0
    /\ FramesBegun < MaxWrites
    /\ \E p \in Callers :
          /\ callerPc[p] = "idle"
          /\ IF send_lock_free(sendLock)
             THEN SendBegin(p)
             ELSE /\ callerPc' = [callerPc EXCEPT ![p] = "lock_wait"]
                  /\ UNCHANGED <<sendLock, written>>
    /\ UNCHANGED <<conn, readerPc>>
    /\ UNCHANGED <<pmVars, exVars, botVars, riskVars, dispVars, consVars, loopVars>>

\* a queued caller gets _send_lock
SendAcquire ==
    /\ ~ReaderCommitted
    /\ \E p \in Callers :
          /\ callerPc[p] = "lock_wait"
          /\ send_lock_free(sendLock)
          /\ SendBegin(p)
    /\ UNCHANGED <<conn, readerPc>>
    /\ UNCHANGED <<pmVars, exVars, botVars, riskVars, dispVars, consVars, loopVars>>

\* ws.send returned or raised: the with block releases the lock
SendEnd(p, part) ==
    /\ callerPc[p] = "writing"
    /\ written' = Append(written, <<p, part>>)
    /\ sendLock' = IF sendLock = p THEN 0 ELSE sendLock
    /\ callerPc' = [callerPc EXCEPT ![p] = "idle"]

SendWritten ==
    /\ ~ReaderCommitted
    /\ conn.ws = "open"
    /\ \E p \in Callers : SendEnd(p, "tail")
    /\ UNCHANGED <<conn, readerPc>>
    /\ UNCHANGED <<pmVars, exVars, botVars, riskVars, dispVars, consVars, loopVars>>

\* the socket closed during the write: ws.send raises ConnectionClosed
SendWriteRaises ==
    /\ ~ReaderCommitted
    /\ conn.ws = "closed"
    /\ \E p \in Callers : SendEnd(p, "abort")
    /\ UNCHANGED <<conn, readerPc>>
    /\ UNCHANGED <<pmVars, exVars, botVars, riskVars, dispVars, consVars, loopVars>>

(***************************************************************************)
(* SignalConsensus.aggregate and add_training_sample                       *)
(* (core/signal_consensus.py:128-295).  Scores are in hundredths; the      *)
(* ratios of aggregate are compared by cross-multiplication.               *)
(***************************************************************************)
\* signals of one aggregate call
MaxSignals == 3
\* retrains counted in the training specification
MaxRetrains == 2

MIN_CONSENSUS_SCORE == 60
ML_CONSENSUS_ENABLED == TRUE
STRONG_SCORE == 60
MIN_STRONG == 2
MIN_STRATEGIES == 2
CONFLICT_RATIO == 30
MAX_VOLATILITY == 45
TRADITIONAL_FLOOR == 55
ML_MIN_SCORE == 70
ML_MARGIN == 5
EXPECTED_FEATURES == 13
TRAIN_BUFFER == 50
MIN_TRAIN_SAMPLES == 20

StrategyNames == {"mean_reversion", "momentum", "breakout"}
\* the strategies' CALL / PUT and the RISE / FALL the bot converts them to
\* (bot.py:143-149)
SignalSides == {"CALL", "PUT", "RISE", "FALL"}
SignalScores == {55, 65, 70}
SignalSet == [side : SignalSides, score : SignalScores, strategy : StrategyNames]

\* what MLConsensus.predict may answer for a feature vector: None or a side
\* with the largest class probability
NoPrediction == [side |-> "none", score |-> 0]
Predictions == {NoPrediction} \cup [side : {"CALL", "PUT"}, score : {65, 70, 75}]

ConsInit ==
    /\ signals = <<>>
    /\ consensus = [kind |-> "not_called"]
    /\ ml_consensus = [training_data |-> 0, labels |-> 0, is_trained |-> FALSE,
                       retrains |-> 0]

RECURSIVE SumScore(_, _)
SumScore(q, side) ==
    IF q = <<>> THEN 0
    ELSE (IF Head(q).side = side THEN Head(q).score ELSE 0) + SumScore(Tail(q), side)

\* Mutant: the diversity check counts signals instead of strategies.
SignalCount(strong) == Len(strong)

\* {s.get("meta", {}).get("strategy") for s in strong} (155)
DistinctStrategies(strong) == Cardinality({strong[i].strategy : i \in 1..Len(strong)})

\* MLConsensus.extract_features (22-64): six side features, two for each of the
\* three strategy names, the price change and the variance
FeatureCount == 6 + 2 * 3 + 1 + 1

\* step 6 (208-233): the classifier's answer that reaches the combination step
MlResult(is_trained, prediction) ==
    IF ML_CONSENSUS_ENABLED /\ is_trained /\ FeatureCount = EXPECTED_FEATURES
    THEN prediction
    ELSE NoPrediction

NoDecision == [kind |-> "none"]

\* steps 5, 7 and 8 (193-273) for strong signals that are all CALL or PUT
Decide(strong, ml_result) ==
    LET agg_call == SumScore(strong, "CALL")
        agg_put == SumScore(strong, "PUT")
        total == agg_call + agg_put
        traditional_side == IF agg_call > agg_put THEN "CALL" ELSE "PUT"
        agg_side == IF agg_call > agg_put THEN agg_call ELSE agg_put
    IN IF agg_call = agg_put THEN NoDecision
       ELSE IF agg_side * 100 < Max(MIN_CONSENSUS_SCORE, TRADITIONAL_FLOOR) * total
       THEN NoDecision
       ELSE IF /\ ml_result # NoPrediction
               /\ ml_result.score >= ML_MIN_SCORE
               /\ ml_result.side = traditional_side
               /\ ml_result.score * total > agg_side * 100 + ML_MARGIN * total
       THEN [kind |-> "decision", side |-> ml_result.side, method |-> "ml_override",
             score |-> <<ml_result.score, 100>>, sources |-> Len(strong)]
       ELSE [kind |-> "decision", side |-> traditional_side, method |-> "traditional",
             score |-> <<agg_side, total>>, sources |-> Len(strong)]

\* SignalConsensus.aggregate (128-273)
aggregate(sigs, is_trained, prediction) ==
    LET strong == SelectSeq(sigs, LAMBDA s : s.score >= STRONG_SCORE)
        call_strength == SumScore(strong, "CALL")
        put_strength == SumScore(strong, "PUT")
        total_strength == call_strength + put_strength
        diff == IF call_strength >= put_strength
                THEN call_strength - put_strength ELSE put_strength - call_strength
        top == CHOOSE x \in {strong[i].score : i \in 1..Len(strong)} :
                   \A i \in 1..Len(strong) : strong[i].score <= x
        low == CHOOSE x \in {strong[i].score : i \in 1..Len(strong)} :
                   \A i \in 1..Len(strong) : strong[i].score >= x
    IN IF sigs = <<>> THEN NoDecision
       ELSE IF Len(strong) < MIN_STRONG THEN NoDecision
       ELSE IF DistinctStrategies(strong) < MIN_STRATEGIES THEN NoDecision
       ELSE IF /\ call_strength > 0
               /\ put_strength > 0
               /\ diff * 100 < CONFLICT_RATIO * total_strength
       THEN NoDecision
       ELSE IF top - low > MAX_VOLATILITY THEN NoDecision
       ELSE IF \E i \in 1..Len(strong) : strong[i].side \notin {"CALL", "PUT"}
       THEN [kind |-> "raised"]
       ELSE Decide(strong, MlResult(is_trained, prediction))

\* the signals of one call are all CALL / PUT (strategies, test_signal.py) or all
\* RISE / FALL (after the conversion of bot.py:143-149)
SameVocabulary(a, b) == (a \in {"CALL", "PUT"}) <=> (b \in {"CALL", "PUT"})

\* a strategy's signal is appended to the list of this tick (bot.py:137-158)
SignalArrives ==
    /\ Len(signals) < MaxSignals
    /\ consensus.kind = "not_called"
    /\ \E s \in SignalSet :
          /\ signals # <<>> => SameVocabulary(s.side, signals[1].side)
          /\ signals' = Append(signals, s)
    /\ UNCHANGED <<consensus, ml_consensus>>
    /\ UNCHANGED <<pmVars, exVars, botVars, riskVars, connVars, dispVars, sendVars, loopVars>>

\* SignalConsensus.__init__ found a saved model (load_ml_model, 122-126)
LoadMlModel ==
    /\ ~ml_consensus.is_trained
    /\ signals = <<>>
    /\ ml_consensus' = [ml_consensus EXCEPT !.is_trained = TRUE]
    /\ UNCHANGED <<signals, consensus>>
    /\ UNCHANGED <<pmVars, exVars, botVars, riskVars, connVars, dispVars, sendVars, loopVars>>

\* the outcome of a call together with what the classifier answers, or would
\* answer, for the features of that call
Asked(outcome, prediction) ==
    [k \in DOMAIN outcome \cup {"predicted"} |->
        IF k = "predicted" THEN prediction ELSE outcome[k]]

\* self.consensus.aggregate(signals, price, self.session_open) (bot.py:207)
Aggregate ==
    /\ consensus.kind = "not_called"
    /\ \E prediction \in Predictions :
          /\ ~ml_consensus.is_trained => prediction = NoPrediction
          /\ consensus' = Asked(aggregate(signals, ml_consensus.is_trained, prediction),
                                prediction)
    /\ UNCHANGED <<signals, ml_consensus>>
    /\ UNCHANGED <<pmVars, exVars, botVars, riskVars, connVars, dispVars, sendVars, loopVars>>

\* the next tick starts with an empty list
NextTick ==
    /\ consensus.kind # "not_called"
    /\ signals' = <<>>
    /\ consensus' = [kind |-> "not_called"]
    /\ UNCHANGED ml_consensus
    /\ UNCHANGED <<pmVars, exVars, botVars, riskVars, connVars, dispVars, sendVars, loopVars>>

\* MLConsensus.train (66-89) on the buffer: fewer than MIN_TRAIN_SAMPLES does
\* nothing
train(m) ==
    IF m.training_data < MIN_TRAIN_SAMPLES THEN m
    ELSE [m EXCEPT !.is_trained = TRUE, !.retrains = @ + 1]

\* Mutant: the buffer is kept after the retrain.
BufferKept(m) == m

\* the buffer after the retrain of add_training_sample (292-294)
BufferCleared(m) == [m EXCEPT !.training_data = 0, !.labels = 0]

\* SignalConsensus.add_training_sample (275-295)
add_training_sample(m, sigs) ==
    IF ~ML_CONSENSUS_ENABLED \/ sigs = <<>> THEN m
    ELSE LET appended == [m EXCEPT !.training_data = @ + 1, !.labels = @ + 1]
         IN IF appended.training_data >= TRAIN_BUFFER
            THEN BufferCleared(train(appended))
            ELSE appended

\* a settled trade hands its signals to add_training_sample
AddTrainingSample ==
    /\ ml_consensus.retrains < MaxRetrains
    /\ \E sigs \in {<<>>} \cup {<<s>> : s \in SignalSet} :
          ml_consensus' = add_training_sample(ml_consensus, sigs)
    /\ UNCHANGED <<signals, consensus>>
    /\ UNCHANGED <<pmVars, exVars, botVars, riskVars, connVars, dispVars, sendVars, loopVars>>

(***************************************************************************)
(* DerivAPIClient: the reader's fan-out (deriv_api.py:99-112), the         *)
(* listener registry (122-130), handle_incoming (150-177), buy() (315-370) *)
(* and authorize() (132-148).                                              *)
(* Listeners are named: "exec" is OrderExecutor._ws_listener, "tick" is    *)
(* TradingBot._tick_handler, "oneshot" is the closure buy() registers.     *)
(***************************************************************************)
ListenerNames == {"exec", "tick", "oneshot"}
FrameKinds == {"tick", "buy", "authorize_ok", "authorize_error"}

Range(q) == {q[i] : i \in 1..Len(q)}

\* list.remove(x) for a list without duplicates
SeqRemove(q, x) == SelectSeq(q, LAMBDA y : y # x)

\* Mutant: remove_listener leaves the callback in the list.
remove_listener_kept(q, callback) == q

\* add_listener / remove_listener: deriv_api.py:122-130
add_listener(q, callback) == IF callback \in Range(q) THEN q ELSE Append(q, callback)
remove_listener(q, callback) == IF callback \in Range(q) THEN SeqRemove(q, callback) ELSE q

DispInit ==
    /\ listeners = <<>>
    /\ dispatch = [pc |-> "recv", frame |-> "none", todo |-> <<>>, snapshot |-> {},
                   delivered |-> {}, raised |-> {}, handled |-> 0,
                   saw_auth_ok |-> FALSE, sock |-> 0, auth_sock |-> 0]
    /\ wire = <<>>
    /\ framesSent = 0
    /\ buyCall = [pc |-> "idle", ev |-> FALSE, result |-> "none"]
    /\ authCall = [pc |-> "idle", result |-> "none"]
    /\ authEvent = FALSE

\* the dispatch record once listener l has been awaited
NextListener(d, l) ==
    [d EXCEPT !.delivered = @ \cup {l},
              !.todo = Tail(@),
              !.pc = IF Tail(d.todo) = <<>> THEN "internal" ELSE "listeners"]

\* Mutant: an exception of a listener leaves the reader's loop.
ListenerRaisedUncaught(d, l) ==
    [d EXCEPT !.delivered = @ \cup {l}, !.raised = @ \cup {l}, !.pc = "crashed"]

\* "except Exception: logger.exception(...)" around "await cb(msg)" (105-108)
ListenerRaised(d, l) ==
    [NextListener(d, l) EXCEPT !.raised = @ \cup {l}]

\* OrderExecutor.start, TradingBot.run / stop and other tasks register and
\* deregister their callbacks while the reader is suspended
AddListener ==
    /\ ~ReaderCommitted
    /\ \E l \in ListenerNames \ {"oneshot"} :
          /\ l \notin Range(listeners)
          /\ listeners' = add_listener(listeners, l)
    /\ UNCHANGED <<dispatch, wire, framesSent, buyCall, authCall, authEvent>>
    /\ UNCHANGED <<pmVars, exVars, botVars, riskVars, connVars, sendVars, consVars, loopVars>>

RemoveListener ==
    /\ ~ReaderCommitted
    /\ \E l \in ListenerNames \ {"oneshot"} :
          /\ l \in Range(listeners)
          /\ listeners' = remove_listener(listeners, l)
    /\ UNCHANGED <<dispatch, wire, framesSent, buyCall, authCall, authEvent>>
    /\ UNCHANGED <<pmVars, exVars, botVars, riskVars, connVars, sendVars, consVars, loopVars>>

\* the broker pushes a tick on the open socket
BrokerTick ==
    /\ conn.ws = "open"
    /\ framesSent < MaxFrames
    /\ wire' = Append(wire, "tick")
    /\ framesSent' = framesSent + 1
    /\ UNCHANGED <<listeners, dispatch, buyCall, authCall, authEvent>>
    /\ UNCHANGED <<pmVars, exVars, botVars, riskVars, connVars, sendVars, consVars, loopVars>>

\* "msg = await self._recv()" returns a frame; "for cb in list(self._listeners)"
\* takes the snapshot (103-104)
DispatchRecv ==
    /\ dispatch.pc = "recv"
    /\ wire # <<>>
    /\ conn.ws = "open"
    /\ \E r \in ReaderIds : readerPc[r].pc = "recv" /\ readerPc[r].sock = conn.sockets
    /\ dispatch' = [pc |-> IF listeners = <<>> THEN "internal" ELSE "listeners",
                    frame |-> Head(wire), todo |-> listeners,
                    snapshot |-> Range(listeners), delivered |-> {}, raised |-> {},
                    handled |-> dispatch.handled, saw_auth_ok |-> dispatch.saw_auth_ok,
                    sock |-> conn.sockets, auth_sock |-> dispatch.auth_sock]
    /\ wire' = Tail(wire)
    /\ UNCHANGED <<listeners, framesSent, buyCall, authCall, authEvent>>
    /\ UNCHANGED <<pmVars, exVars, botVars, riskVars, connVars, sendVars, consVars, loopVars>>

\* _one_shot_listener (342-357): a buy frame resolves the waiting buy() call
OneShotMatches(frame) == frame = "buy"

\* "await cb(msg)" returns
ListenerReturns ==
    /\ dispatch.pc = "listeners"
    /\ LET l == Head(dispatch.todo) IN
          /\ dispatch' = NextListener(dispatch, l)
          /\ buyCall' = IF l = "oneshot" /\ OneShotMatches(dispatch.frame)
                        THEN [buyCall EXCEPT !.ev = TRUE, !.result = "response"]
                        ELSE buyCall
    /\ UNCHANGED <<listeners, wire, framesSent, authCall, authEvent>>
    /\ UNCHANGED <<pmVars, exVars, botVars, riskVars, connVars, sendVars, consVars, loopVars>>

\* "await cb(msg)" raises an Exception; the one-shot listener catches its own
ListenerRaises ==
    /\ dispatch.pc = "listeners"
    /\ Head(dispatch.todo) # "oneshot"
    /\ dispatch' = ListenerRaised(dispatch, Head(dispatch.todo))
    /\ UNCHANGED <<listeners, wire, framesSent, buyCall, authCall, authEvent>>
    /\ UNCHANGED <<pmVars, exVars, botVars, riskVars, connVars, sendVars, consVars, loopVars>>

\* handle_incoming (150-177), then the loop returns to _recv
DispatchInternal ==
    /\ dispatch.pc = "internal"
    /\ dispatch' = [pc |-> "recv", frame |-> "none", todo |-> <<>>, snapshot |-> {},
                    delivered |-> {}, raised |-> {},
                    handled |-> dispatch.handled + 1,
                    saw_auth_ok |-> dispatch.saw_auth_ok \/ dispatch.frame = "authorize_ok",
                    sock |-> 0,
                    auth_sock |-> IF dispatch.frame \in {"authorize_ok", "authorize_error"}
                                  THEN dispatch.sock ELSE dispatch.auth_sock]
    /\ conn' = IF dispatch.frame = "authorize_ok" THEN [conn EXCEPT !.authorized = TRUE]
               ELSE IF dispatch.frame = "authorize_error"
               THEN [conn EXCEPT !.authorized = FALSE]
               ELSE conn
    /\ authEvent' = (authEvent \/ dispatch.frame \in {"authorize_ok", "authorize_error"})
    /\ readerPc' = [r \in ReaderIds |->
                       IF readerPc[r].pc = "recv" /\ conn.ws = "open"
                       THEN [readerPc[r] EXCEPT !.sock = conn.sockets]
                       ELSE readerPc[r]]
    /\ UNCHANGED <<listeners, wire, framesSent, buyCall, authCall>>
    /\ UNCHANGED callerPc
    /\ UNCHANGED <<pmVars, exVars, botVars, riskVars, sendVars, consVars, loopVars>>

\* the transport closes: the frames in flight are lost
DispatchTransportClose ==
    /\ conn.ws = "open"
    /\ conn.sockets < MaxSockets
    /\ \E r \in ReaderIds : readerPc[r].pc = "none"
    /\ conn' = [conn EXCEPT !.ws = "closed"]
    /\ wire' = <<>>
    /\ UNCHANGED <<listeners, dispatch, framesSent, buyCall, authCall, authEvent>>
    /\ UNCHANGED <<readerPc, callerPc>>
    /\ UNCHANGED <<pmVars, exVars, botVars, riskVars, sendVars, consVars, loopVars>>

\* _recv raises ConnectionClosed in the reader that is back at the top of its loop
DispatchCloseSeen ==
    /\ dispatch.pc = "recv"
    /\ ReaderCloseSeen

\* task ids of the two calls, for _connection_lock
AuthTask == 21
BuyTask == 22

\* frames the broker may put on the wire in answer to a request: at most one of
\* the given kinds, or none
BrokerAnswers(kinds) ==
    {wire} \cup (IF framesSent < MaxFrames THEN {Append(wire, k) : k \in kinds} ELSE {})

\* send() (87-92) on an open socket, the broker answering or not
SendAnswered(kinds) ==
    /\ wire' \in BrokerAnswers(kinds)
    /\ framesSent' = IF wire' = wire THEN framesSent ELSE framesSent + 1

\* ---- authorize(): deriv_api.py:132-148 ----------------------------------
\* the call from "self._authorize_event.clear()" to the suspension in wait_for
AuthorizeSend ==
    /\ authEvent' = FALSE
    /\ SendAnswered({"authorize_ok", "authorize_error"})
    /\ authCall' = [pc |-> "wait_event", result |-> "none"]

\* entry: already authorized, or connect() (returns at once on an open socket,
\* queues on the lock, or starts connecting)
AuthorizeCall ==
    /\ ~ReaderCommitted
    /\ authCall.pc = "idle"
    /\ IF conn.authorized
       THEN /\ authCall' = [pc |-> "done", result |-> "true"]
            /\ UNCHANGED <<conn, wire, framesSent, authEvent>>
       ELSE IF conn.ws = "open" /\ conn.lock = 0
       THEN AuthorizeSend /\ UNCHANGED conn
       ELSE /\ authCall' = [pc |-> IF CallConnect(AuthTask, "idle").pc = "waiting"
                                    THEN "waiting_lock" ELSE "connecting",
                             result |-> "none"]
            /\ conn' = CallConnect(AuthTask, "idle").conn
            /\ UNCHANGED <<wire, framesSent, authEvent>>
    /\ UNCHANGED <<listeners, dispatch, buyCall>>
    /\ UNCHANGED <<readerPc, callerPc>>
    /\ UNCHANGED <<pmVars, exVars, botVars, riskVars, sendVars, consVars, loopVars>>

\* the queued call gets _connection_lock
AuthorizeAcquire ==
    /\ ~ReaderCommitted
    /\ authCall.pc = "waiting_lock"
    /\ conn.lock = 0
    /\ IF conn.ws = "open"
       THEN AuthorizeSend /\ UNCHANGED conn
       ELSE /\ authCall' = [authCall EXCEPT !.pc = "connecting"]
            /\ conn' = connect_enter(conn, AuthTask)
            /\ UNCHANGED <<wire, framesSent, authEvent>>
    /\ UNCHANGED <<listeners, dispatch, buyCall>>
    /\ UNCHANGED <<readerPc, callerPc>>
    /\ UNCHANGED <<pmVars, exVars, botVars, riskVars, sendVars, consVars, loopVars>>

\* websockets.connect returned to authorize()'s connect(): the event is cleared
\* (66), the reader is started if needed, and the call goes on to send
AuthorizeConnected ==
    /\ ~ReaderCommitted
    /\ authCall.pc = "connecting"
    /\ conn.lock = AuthTask
    /\ conn' = connect_established(conn, readerPc).conn
    /\ readerPc' = connect_established(conn, readerPc).pcs
    /\ AuthorizeSend
    /\ UNCHANGED <<listeners, dispatch, buyCall>>
    /\ UNCHANGED callerPc
    /\ UNCHANGED <<pmVars, exVars, botVars, riskVars, sendVars, consVars, loopVars>>

\* websockets.connect raised or timed out: connect() re-raises (73-78) and
\* authorize() has no handler around "await self.connect()" (137)
AuthorizeConnectRaises ==
    /\ ~ReaderCommitted
    /\ authCall.pc = "connecting"
    /\ conn.lock = AuthTask
    /\ conn' = [conn EXCEPT !.lock = 0]
    /\ authCall' = [pc |-> "done", result |-> "raised"]
    /\ UNCHANGED <<listeners, dispatch, wire, framesSent, buyCall, authEvent>>
    /\ UNCHANGED <<readerPc, callerPc>>
    /\ UNCHANGED <<pmVars, exVars, botVars, riskVars, sendVars, consVars, loopVars>>

\* the event was set: "return self.authorized" (145)
AuthorizeWakes ==
    /\ ~ReaderCommitted
    /\ authCall.pc = "wait_event"
    /\ authEvent
    /\ authCall' = [pc |-> "done", result |-> IF conn.authorized THEN "true" ELSE "false"]
    /\ UNCHANGED <<listeners, dispatch, wire, framesSent, buyCall, authEvent>>
    /\ UNCHANGED <<pmVars, exVars, botVars, riskVars, connVars, sendVars, consVars, loopVars>>

\* ten seconds passed without the event: "return False" (146-148)
AuthorizeTimeout ==
    /\ ~ReaderCommitted
    /\ authCall.pc = "wait_event"
    /\ ~authEvent
    /\ authCall' = [pc |-> "done", result |-> "false"]
    /\ UNCHANGED <<listeners, dispatch, wire, framesSent, buyCall, authEvent>>
    /\ UNCHANGED <<pmVars, exVars, botVars, riskVars, connVars, sendVars, consVars, loopVars>>

\* the caller has the outcome; a later call starts afresh
AuthorizeReturn ==
    /\ ~ReaderCommitted
    /\ authCall.pc = "done"
    /\ authCall' = [pc |-> "idle", result |-> "none"]
    /\ UNCHANGED <<listeners, dispatch, wire, framesSent, buyCall, authEvent>>
    /\ UNCHANGED <<pmVars, exVars, botVars, riskVars, connVars, sendVars, consVars, loopVars>>

\* ---- buy(): deriv_api.py:315-370 ----------------------------------------
\* "await self.send(req)" went through: the call is suspended in wait_for(ev.wait())
BuySend ==
    /\ SendAnswered({"buy"})
    /\ buyCall' = [buyCall EXCEPT !.pc = "wait_event"]

\* the finally block (366-367) and the return
BuyFinish(result) ==
    /\ listeners' = remove_listener(listeners, "oneshot")
    /\ buyCall' = [buyCall EXCEPT !.pc = "done", !.result = result]

\* entry: the one-shot listener is registered (359), then send() calls connect()
BuyCall ==
    /\ ~ReaderCommitted
    /\ buyCall.pc = "idle"
    /\ listeners' = add_listener(listeners, "oneshot")
    /\ IF conn.ws = "open" /\ conn.lock = 0
       THEN BuySend /\ UNCHANGED conn
       ELSE /\ buyCall' = [buyCall EXCEPT !.pc = IF CallConnect(BuyTask, "idle").pc = "waiting"
                                                 THEN "waiting_lock" ELSE "connecting"]
            /\ conn' = CallConnect(BuyTask, "idle").conn
            /\ UNCHANGED <<wire, framesSent>>
    /\ UNCHANGED <<dispatch, authCall, authEvent>>
    /\ UNCHANGED <<readerPc, callerPc>>
    /\ UNCHANGED <<pmVars, exVars, botVars, riskVars, sendVars, consVars, loopVars>>

BuyAcquire ==
    /\ ~ReaderCommitted
    /\ buyCall.pc = "waiting_lock"
    /\ conn.lock = 0
    /\ IF conn.ws = "open"
       THEN BuySend /\ UNCHANGED conn
       ELSE /\ buyCall' = [buyCall EXCEPT !.pc = "connecting"]
            /\ conn' = connect_enter(conn, BuyTask)
            /\ UNCHANGED <<wire, framesSent>>
    /\ UNCHANGED <<listeners, dispatch, authCall, authEvent>>
    /\ UNCHANGED <<readerPc, callerPc>>
    /\ UNCHANGED <<pmVars, exVars, botVars, riskVars, sendVars, consVars, loopVars>>

\* websockets.connect returned to send()'s connect(): connect() clears the
\* authorize event (66) and the frame is written
BuyConnected ==
    /\ ~ReaderCommitted
    /\ buyCall.pc = "connecting"
    /\ conn.lock = BuyTask
    /\ conn' = connect_established(conn, readerPc).conn
    /\ readerPc' = connect_established(conn, readerPc).pcs
    /\ authEvent' = FALSE
    /\ BuySend
    /\ UNCHANGED <<listeners, dispatch, authCall>>
    /\ UNCHANGED callerPc
    /\ UNCHANGED <<pmVars, exVars, botVars, riskVars, sendVars, consVars, loopVars>>

\* sending failed: connect() raised inside send(); the finally block runs and
\* the exception leaves buy()
BuySendRaises ==
    /\ ~ReaderCommitted
    /\ buyCall.pc = "connecting"
    /\ conn.lock = BuyTask
    /\ conn' = [conn EXCEPT !.lock = 0]
    /\ BuyFinish("raised")
    /\ UNCHANGED <<dispatch, wire, framesSent, authCall, authEvent>>
    /\ UNCHANGED <<readerPc, callerPc>>
    /\ UNCHANGED <<pmVars, exVars, botVars, riskVars, sendVars, consVars, loopVars>>

\* ev was set by the one-shot listener
BuyWakes ==
    /\ ~ReaderCommitted
    /\ buyCall.pc = "wait_event"
    /\ buyCall.ev
    /\ BuyFinish("response")
    /\ UNCHANGED <<dispatch, wire, framesSent, authCall, authEvent>>
    /\ UNCHANGED <<pmVars, exVars, botVars, riskVars, connVars, sendVars, consVars, loopVars>>

\* ten seconds passed without a matching frame (363-365)
BuyTimeout ==
    /\ ~ReaderCommitted
    /\ buyCall.pc = "wait_event"
    /\ ~buyCall.ev
    /\ BuyFinish("timeout")
    /\ UNCHANGED <<dispatch, wire, framesSent, authCall, authEvent>>
    /\ UNCHANGED <<pmVars, exVars, botVars, riskVars, connVars, sendVars, consVars, loopVars>>

\* the caller has the outcome; a later call registers a fresh closure
BuyReturn ==
    /\ ~ReaderCommitted
    /\ buyCall.pc = "done"
    /\ buyCall' = [pc |-> "idle", ev |-> FALSE, result |-> "none"]
    /\ UNCHANGED <<listeners, dispatch, wire, framesSent, authCall, authEvent>>
    /\ UNCHANGED <<pmVars, exVars, botVars, riskVars, connVars, sendVars, consVars, loopVars>>

\* a direct place_trade call, bounded
ExecPlaceSend ==
    /\ Cardinality(CreatedIds) < MaxExecTrades
    /\ ManualPlaceSend

NextExec ==
    \/ ExecPlaceSend
    \/ ManualPlaceRegister
    \/ HandleBuyAck
    \/ HandleBuyError
    \/ ContractUpdate
    \/ ContractUpdatePersistFails
    \/ CleanupQuery
    \/ CleanupMark
    \/ CleanupCommit
    \/ CleanupCommitFails
    \/ BotRun
    \/ BotStop
    \/ ThreeMinutesPass

InitExec == PMVarsInit /\ ExecInit /\ BotInit /\ RiskVarsInit /\ ConnInit /\ DispInit /\ SendInit /\ ConsInit /\ LoopInit

SpecExec == InitExec /\ [][NextExec]_vars

(***************************************************************************)
(* The bot's tick path with the executor's buy handling                    *)
(***************************************************************************)
NextBot ==
    \/ BotRun
    \/ BotStop
    \/ TickBegin
    \/ TickSkip
    \/ TickPlaceTrade
    \/ TickPlaced
    \/ IntervalElapses
    \/ ManualPlaceSend
    \/ ManualPlaceRegister
    \/ HandleBuyAck
    \/ HandleBuyError

SpecBot == InitExec /\ [][NextBot]_vars

(***************************************************************************)
(* Properties of the settlement path, checked under SpecExec               *)
(***************************************************************************)
\* C1: when the same sold frame has been delivered twice for one contract,
\* the risk update, the performance record and the training sample of its
\* trade have each been invoked exactly once, and the second delivery
\* changed nothing.
C1_SettlementIdempotent ==
    soldTwice =>
        /\ riskApplied[soldTrade] = 1
        /\ perfCalls[soldTrade] = 1
        /\ trainCalls[soldTrade] = 1
        /\ ~soldTwiceChanged

\* C3: a persisted Trade whose status is terminal keeps that status in every
\* step, whatever handler or cleanup pass takes the step.
C3_TerminalStatusStable ==
    [][\A t \in TradeIds :
          tradeDb[t].status \in TerminalStatus
              => tradeDb'[t].status = tradeDb[t].status]_vars

(***************************************************************************)
(* Properties of the tick path, checked under SpecBot                      *)
(***************************************************************************)
\* C7: while the bot is stopped (listener removed, running cleared) no
\* _tick_handler invocation calls place_trade, an invocation that was
\* suspended when stop() ran included.
C7_NoPlaceAfterStop ==
    [][~running => ~(tickPc = "suspended" /\ tickPc' = "placing")]_vars

\* C10: at most one entry of OrderExecutor.trades is awaiting its contract.
C10_OneAwaiting ==
    Cardinality({i \in 1..Len(trades) : trades[i].awaiting_contract}) <= 1

(***************************************************************************)
(* PositionManager driven by its callers: add_position from _handle_buy    *)
(* (order_executor.py:130), and the lookups, the uuid recording and the    *)
(* mark_closed call of _handle_contract_update (order_executor.py:225-233, *)
(* 390) with a risk update that returns.                                   *)
(***************************************************************************)
\* the broker acknowledges a buy with a contract id it has not used before
PMAddPosition ==
    /\ \E c \in Cids, side \in {"RISE", "FALL"} :
          /\ c \notin DOMAIN pm.active_positions
          /\ c \notin closedCids
          /\ pm' = add_position(pm, c, c, side, TRADE_AMOUNT)
    /\ UNCHANGED <<everUuid, closedCids>>
    /\ UNCHANGED <<exVars, botVars, riskVars, connVars, dispVars, sendVars, consVars, loopVars>>

\* the identifiers of a frame: a stream id, a contract id, or both
FrameIds == {f \in [id : Uuids \cup {NoId}, contract_id : Cids \cup {NoId}] :
                f.id # NoId \/ f.contract_id # NoId}

\* a frame that is not a settlement: order_executor.py:225-233
PMUpdateFrame ==
    /\ \E f \in FrameIds :
          LET pos == FramePosition(pm, f) IN
          /\ ~is_cleaned(pm, f.id) /\ ~is_cleaned(pm, f.contract_id)
          /\ pos # NoPos
          /\ f.id # NoId /\ pos.uuid = NoId
          /\ pm' = update_contract_uuid(pm, pos.contract_id, f.id)
          /\ everUuid' = [everUuid EXCEPT ![pos.contract_id] = @ \cup {f.id}]
    /\ UNCHANGED closedCids
    /\ UNCHANGED <<exVars, botVars, riskVars, connVars, dispVars, sendVars, consVars, loopVars>>

\* a settlement frame: order_executor.py:225-233 and 390
PMSettleFrame ==
    /\ \E f \in FrameIds :
          LET pos == FramePosition(pm, f)
              records == f.id # NoId /\ pos.uuid = NoId
              pm1 == IF records THEN update_contract_uuid(pm, pos.contract_id, f.id)
                     ELSE pm
              ident == IF f.id # NoId THEN f.id ELSE f.contract_id
          IN /\ ~is_cleaned(pm, f.id) /\ ~is_cleaned(pm, f.contract_id)
             /\ pos # NoPos
             /\ pm' = mark_closed(pm1, ident)
             /\ everUuid' = IF records
                            THEN [everUuid EXCEPT ![pos.contract_id] = @ \cup {f.id}]
                            ELSE everUuid
             /\ closedCids' = IF get_position(pm1, ident) # NoPos
                              THEN closedCids \cup {pos.contract_id}
                              ELSE closedCids
    /\ UNCHANGED <<exVars, botVars, riskVars, connVars, dispVars, sendVars, consVars, loopVars>>

NextPM ==
    \/ PMAddPosition
    \/ PMUpdateFrame
    \/ PMSettleFrame

SpecPM == InitExec /\ [][NextPM]_vars

SpecRisk == InitExec /\ [][NextRisk]_vars

\* the RiskManager fed with the large stakes
NextLock ==
    \/ RiskStartSession
    \/ RiskOutcomeLarge
    \/ RiskAllowTrade
    \/ RiskSize
    \/ RiskManualUnlock
    \/ RiskResetStreak
    \/ ClockAdvance

SpecLock == InitExec /\ [][NextLock]_vars

\* the RiskManager fed a sequence of outcomes, as src/test_recovery.py drives it,
\* with sessions, admissions and streak resets in between
NextRecovery ==
    \/ RiskStartSession
    \/ RiskOutcome
    \/ RiskAllowTrade
    \/ RiskResetStreak

SpecRecovery == InitExec /\ [][NextRecovery]_vars

\* start and stop requests and the run-loop tasks they leave
NextLoops ==
    \/ StartRoute
    \/ StopCall
    \/ \E l \in LoopIds : RunBegin(l)
    \/ \E l \in LoopIds : RunEnterLoop(l)
    \/ \E l \in LoopIds : RunConnectFails(l)
    \/ \E l \in LoopIds : LoopIterate(l)

SpecLoops == InitExec /\ [][NextLoops]_vars

\* the reader's loop with the connection under it
NextReader ==
    \/ BrokerTick
    \/ DispatchRecv
    \/ DispatchInternal
    \/ DispatchTransportClose
    \/ DispatchCloseSeen
    \/ ReaderReconnect
    \/ ReaderAcquire
    \/ ConnectSucceeds
    \/ ConnectFails

\* the fan-out: callers of connect(), tasks that register and deregister
\* listeners, listeners that return or raise
NextFanout ==
    \/ NextReader
    \/ CallerConnect
    \/ CallerAcquire
    \/ AddListener
    \/ RemoveListener
    \/ ListenerReturns
    \/ ListenerRaises

SpecFanout == InitExec /\ [][NextFanout]_vars

\* one buy() caller on top of the fan-out
NextBuy ==
    \/ NextReader
    \/ AddListener
    \/ RemoveListener
    \/ ListenerReturns
    \/ BuyCall
    \/ BuyAcquire
    \/ BuyConnected
    \/ BuySendRaises
    \/ BuyWakes
    \/ BuyTimeout
    \/ BuyReturn

\* wait_for(ev.wait(), timeout=10.0) returns when ev is set or raises
\* TimeoutError when the ten seconds are over: the loop's timer makes one of the
\* two happen; the reader, past its last listener, runs handle_incoming to its
\* end without suspending (deriv_api.py:110), so that step is taken as well
SpecBuy ==
    /\ InitExec
    /\ [][NextBuy]_vars
    /\ WF_vars(BuyWakes)
    /\ WF_vars(BuyTimeout)
    /\ WF_vars(DispatchInternal)

\* one authorize() caller and the reader's internal handler
NextAuthorize ==
    \/ NextReader
    \/ AuthorizeCall
    \/ AuthorizeAcquire
    \/ AuthorizeConnected
    \/ AuthorizeConnectRaises
    \/ AuthorizeWakes
    \/ AuthorizeTimeout
    \/ AuthorizeReturn

SpecAuthorize == InitExec /\ [][NextAuthorize]_vars

\* authorize() beside other callers of connect() and listeners that suspend
\* while the reader holds a frame (broadcast_deriv_messages awaits the web
\* clients on an authorize frame)
NextReconnect ==
    \/ NextAuthorize
    \/ CallerConnect
    \/ CallerAcquire
    \/ AddListener
    \/ ListenerReturns

SpecReconnect == InitExec /\ [][NextReconnect]_vars

\* concurrent callers of send() on the connection
NextSend ==
    \/ NextConn
    \/ SendEnter
    \/ SendAcquire
    \/ SendWritten
    \/ SendWriteRaises

SpecSend == InitExec /\ [][NextSend]_vars

\* aggregate on the signals of a tick, with or without a loaded model
NextConsensus ==
    \/ LoadMlModel
    \/ SignalArrives
    \/ Aggregate
    \/ NextTick

SpecConsensus == InitExec /\ [][NextConsensus]_vars

\* the training buffer
NextTraining ==
    \/ AddTrainingSample

SpecTraining == InitExec /\ [][NextTraining]_vars

SpecConn == InitExec /\ [][NextConn]_vars

\* every task of the client keeps running and the broker accepts every attempt;
\* nothing is assumed about when the transport closes
SpecConnFair ==
    /\ InitExec
    /\ [][NextConnAccepting]_vars
    /\ WF_vars(CallerConnect)
    /\ WF_vars(CallerAcquire)
    /\ WF_vars(ReaderCloseSeen)
    /\ WF_vars(ReaderReconnect)
    /\ WF_vars(ReaderAcquire)
    /\ WF_vars(ConnectSucceeds)
    /\ WF_vars(AuthorizeOk)

(***************************************************************************)
(* Properties of the RiskManager, checked under SpecRisk                   *)
(***************************************************************************)
\* C4: in a session started and peaking at 100.00, when update_trade_outcome
\* returns with net losses of 16.00 or more the state is LOCKED, and
\* allow_trade called on it returns false for every open count and balance.
C4_DrawdownLocks ==
    (/\ sinceUpdate
     /\ risk.start_day_balance = 10000
     /\ risk.peak_balance = 10000
     /\ risk.net_loss >= 1600)
        => /\ risk.state = "LOCKED"
           /\ \A n \in OpenCounts, b \in Balances \cup {balance} :
                 ~allow_trade(risk, now, n, b).allowed

\* C5: recovery_streak is never negative, and when update_trade_outcome
\* returns with recovery_streak above max_recovery_streak the state is PANIC
\* and get_next_trade_amount returns 0.
C5_StreakForcesPanic ==
    /\ risk.recovery_streak >= 0
    /\ (sinceUpdate /\ risk.recovery_streak > max_recovery_streak)
          => /\ risk.state = "PANIC"
             /\ get_next_trade_amount(risk, now, NoVal, balance).amount = 0

\* C6: next_trade_amount never exceeds base_amount x
\* max_recovery_amount_multiplier nor max_recovery_pct_balance of the
\* current account balance.
C6_NextAmountCapped ==
    /\ risk.next_trade_amount <= base_amount * MAX_RECOVERY_AMOUNT_MULTIPLIER
    /\ risk.next_trade_amount * 100 <= balance * max_recovery_pct_balance

(***************************************************************************)
(* Properties of the connection                                            *)
(***************************************************************************)
\* C8: whenever the transport is closed, the client later holds an open
\* socket with a reader task receiving on it (checked under SpecConnFair).
C8_SelfHealing ==
    (conn.ws = "closed")
        ~> (/\ conn.ws = "open"
            /\ \E r \in ReaderIds :
                  readerPc[r].pc = "recv" /\ readerPc[r].sock = conn.sockets)

\* C9: at most one reader task is alive, and while the socket is open a
\* connect() call by any task leaves the socket, the reader task and the
\* authorization as they are (checked under SpecConn).
C9_SingleReader ==
    /\ Cardinality(LiveReaders) <= 1
    /\ conn.ws = "open" =>
          \A task \in ReaderIds \cup Callers :
              /\ CallConnect(task, "idle").conn = conn
              /\ CallConnect(task, "idle").pc = "returned"

\* the socket is open and authorized, with a reader alive, after a reconnect
C9_Witness ==
    /\ conn.ws = "open"
    /\ conn.authorized
    /\ conn.sockets >= 2
    /\ Cardinality(LiveReaders) = 1

(***************************************************************************)
(* Properties of the buy acknowledgement, checked under SpecBot            *)
(***************************************************************************)
\* C11: a step that handles a successful buy acknowledgement (it consumes the
\* acknowledged contract id) while some trade is awaiting a contract turns
\* exactly the oldest awaiting entry of OrderExecutor.trades ACTIVE, gives it
\* a Position keyed by the acknowledged contract id, clears its awaiting
\* flag, and leaves every other trade, row and position as it was.
C11_AckMatchesOldest ==
    [][(nextCid' # nextCid /\ \E i \in 1..Len(trades) : trades[i].awaiting_contract)
        => \E i \in 1..Len(trades) :
              /\ trades[i].awaiting_contract
              /\ \A j \in 1..(i - 1) : ~trades[j].awaiting_contract
              /\ tradeDb'[trades[i].id].status = "ACTIVE"
              /\ ~trades'[i].awaiting_contract
              /\ trades'[i].contract_id = nextCid
              /\ nextCid \in DOMAIN pm'.active_positions
              /\ pm'.active_positions[nextCid].trade_id = trades[i].id
              /\ pm'.active_positions[nextCid].status = "ACTIVE"
              /\ Len(trades') = Len(trades)
              /\ \A j \in 1..Len(trades) : j # i => trades'[j] = trades[j]
              /\ \A t \in TradeIds : t # trades[i].id => tradeDb'[t] = tradeDb[t]
              /\ DOMAIN pm'.active_positions = DOMAIN pm.active_positions \cup {nextCid}
              /\ \A c \in DOMAIN pm.active_positions :
                    pm'.active_positions[c] = pm.active_positions[c]
              /\ pm'.cleaned = pm.cleaned
              /\ pm'.uuid_to_contract_id = pm.uuid_to_contract_id
      ]_vars

\* two buys were sent and registered, one acknowledgement has been handled: the
\* older entry holds the contract and the newer one is still awaiting
C11_Witness ==
    /\ Len(trades) = 2
    /\ placing = {}
    /\ brokerBuys = 1
    /\ trades[1].contract_id = 1
    /\ ~trades[1].awaiting_contract
    /\ trades[2].awaiting_contract
    /\ tradeDb[trades[1].id].status = "ACTIVE"
    /\ tradeDb[trades[2].id].status = "PENDING"
    /\ get_position(pm, 1).trade_id = trades[1].id

(***************************************************************************)
(* Properties of the settlement fan-out, checked under SpecExec            *)
(***************************************************************************)
\* C12: a step of _handle_contract_update that settles an active position
\* (the row of its trade goes from ACTIVE to WON or LOST while no cleanup
\* pass moves) also calls RiskManager.update_trade_outcome, appends to the
\* performance ledger, appends a training sample and marks the position
\* closed: all five feedback steps happen in that one step.
C12_AllFeedbackSteps ==
    [][\A i \in 1..Len(trades) :
          LET t == trades[i].id IN
          (/\ tradeDb[t].status = "ACTIVE"
           /\ tradeDb'[t].status \in {"WON", "LOST"}
           /\ cleanup' = cleanup)
          => /\ riskApplied'[t] = riskApplied[t] + 1
             /\ perfCalls'[t] = perfCalls[t] + 1
             /\ trainCalls'[t] = trainCalls[t] + 1
             /\ is_cleaned(pm', trades[i].contract_id)
             /\ get_position(pm', trades[i].contract_id) = NoPos
      ]_vars

\* C13: a settlement whose persistence of the Trade or Contract terminal
\* state raised still applies RiskManager.update_trade_outcome and appends
\* the training sample for that trade, in the same handler run.
C13_FeedbackDespitePersistFailure ==
    [][\A t \in TradeIds :
          persistFailed'[t] > persistFailed[t]
              => /\ riskApplied'[t] = riskApplied[t] + 1
                 /\ trainCalls'[t] = trainCalls[t] + 1
      ]_vars

\* a frame without any of the settlement indicators the handler recognises
NoSettlementIndicator(b) ==
    /\ ~b.is_sold
    /\ b.status \notin {"sold", "won", "lost"}
    /\ ~b.is_expired

\* C14: when _handle_contract_update handles a frame that carries no
\* settlement indicator and resolves to an active, not cleaned position, the
\* position stays in the active set and is not cleaned, the row of its trade
\* keeps its status, and the risk manager, the performance ledger and the
\* training buffer are not touched.
C14_OpenFrameLeavesPositionOpen ==
    [][\A data \in ContractFrames :
          LET pos == FramePosition(pm, data) IN
          (/\ NoSettlementIndicator(data.body)
           /\ pos # NoPos
           /\ ~is_cleaned(pm, data.id)
           /\ ~is_cleaned(pm, data.contract_id)
           /\ HandleContractUpdate(data))
          => /\ pos.contract_id \in DOMAIN pm'.active_positions
             /\ pm'.active_positions[pos.contract_id].trade_id = pos.trade_id
             /\ pm'.cleaned = pm.cleaned
             /\ tradeDb'[pos.trade_id].status = tradeDb[pos.trade_id].status
             /\ riskApplied' = riskApplied
             /\ perfCalls' = perfCalls
             /\ trainCalls' = trainCalls
             /\ risk' = risk
      ]_vars

\* an open frame carrying a stream id has been handled for contract 1: the id is
\* recorded and the position is still active on an ACTIVE trade
C14_Witness ==
    /\ 1 \in DOMAIN pm.active_positions
    /\ pm.active_positions[1].uuid # NoId
    /\ tradeDb[pm.active_positions[1].trade_id].status = "ACTIVE"
    /\ ~is_cleaned(pm, 1)
    /\ persistFailed[pm.active_positions[1].trade_id] = 0

(***************************************************************************)
(* Properties of the LOCKED state, checked under SpecRisk                  *)
(***************************************************************************)
\* C15: no update_trade_outcome call, WON or LOST, takes the risk state out
\* of LOCKED (the part of the claim that names update_trade_outcome; the
\* releases the claim allows are allow_trade at or after the auto-expiry
\* timestamp, manual_unlock and start_session).
C15_LockedUntilReleased ==
    [][(risk.state = "LOCKED" /\ outcomes' # outcomes) => risk'.state = "LOCKED"]_vars

\* C16: when update_trade_outcome returns from a WON outcome with the
\* accumulated daily profit at or above daily_profit_limit_pct of the
\* session's starting balance, the state is LOCKED with an auto-expiry
\* timestamp, and allow_trade called before that timestamp returns false.
C16_ProfitLock ==
    (/\ sinceUpdate
     /\ risk.consecutive_wins >= 1
     /\ Truthy(risk.start_day_balance)
     /\ risk.daily_profit * 5 >= DAILY_PROFIT_LIMIT_PCT * risk.start_day_balance)
        => /\ risk.state = "LOCKED"
           /\ Truthy(risk.locked_until)
           /\ now < risk.locked_until
                 => \A n \in OpenCounts : ~allow_trade(risk, now, n, balance).allowed

(***************************************************************************)
(* Properties of the recovery step-back, checked under SpecRecovery        *)
(***************************************************************************)
\* a condition on which the manager locks or panics after an outcome: the
\* drawdown of _check_drawdown, the daily loss of _check_daily_loss, or the
\* daily profit limit
LockOrPanicCondition(r) ==
    /\ Truthy(r.start_day_balance)
    /\ \/ /\ Truthy(r.peak_balance)
          /\ r.net_loss * 1000 >= max_drawdown_pct * 8 * r.peak_balance
       \/ r.daily_loss * 100 >= DAILY_LOSS_LIMIT_PCT * r.start_day_balance
       \/ r.daily_profit * 5 >= DAILY_PROFIT_LIMIT_PCT * r.start_day_balance

\* C17: an update_trade_outcome call with WON (the win streak grows by one)
\* sets recovery_streak to max(0, previous - 2) and consecutive_losses to 0;
\* when the streak is then 0, total_losses is 0 and next_trade_amount is
\* base_amount, and unless a lock or panic condition holds the state is NORMAL.
C17_WinStepsBack ==
    [][(outcomes' # outcomes /\ risk'.consecutive_wins = risk.consecutive_wins + 1)
        => /\ risk'.recovery_streak =
                  (IF risk.recovery_streak >= 2 THEN risk.recovery_streak - 2 ELSE 0)
           /\ risk'.consecutive_losses = 0
           /\ risk'.recovery_streak = 0
                 => /\ risk'.total_losses = 0
                    /\ risk'.next_trade_amount = base_amount
                    /\ ~LockOrPanicCondition(risk') => risk'.state = "NORMAL"
      ]_vars

\* a win has just taken a manager that had lost back to streak 0 and NORMAL
C17_Witness ==
    /\ sinceUpdate
    /\ risk.consecutive_wins = 1
    /\ risk.daily_loss > 0
    /\ risk.recovery_streak = 0
    /\ risk.total_losses = 0
    /\ risk.next_trade_amount = base_amount
    /\ risk.state = "NORMAL"
    /\ ~LockOrPanicCondition(risk)

(***************************************************************************)
(* Properties of the reader's fan-out, checked under SpecFanout            *)
(***************************************************************************)
\* C18: the reader never leaves its loop because a listener raised, and when
\* it reaches the internal handler for a frame, every listener that was
\* registered when the dispatch of that frame began has been awaited with
\* it, whichever of them raised; the handler step then returns the reader to
\* _recv.
C18_ListenerIsolation ==
    /\ dispatch.pc \in {"recv", "listeners", "internal"}
    /\ dispatch.pc = "internal" => dispatch.delivered = dispatch.snapshot
    /\ dispatch.pc = "listeners"
          => /\ dispatch.todo # <<>>
             /\ dispatch.delivered \cup Range(dispatch.todo) = dispatch.snapshot

\* a frame went to two listeners, one of them raised, and the reader is
\* at the internal handler with the frame
C18_Witness ==
    /\ dispatch.pc = "internal"
    /\ Cardinality(dispatch.snapshot) = 2
    /\ dispatch.raised # {}
    /\ dispatch.raised # dispatch.snapshot
    /\ dispatch.delivered = dispatch.snapshot

(***************************************************************************)
(* Properties of buy(), checked under SpecBuy                              *)
(***************************************************************************)
\* the listeners other than buy()'s own closure, in list order
OtherListeners(q) == SelectSeq(q, LAMBDA l : l # "oneshot")

\* C19: when buy() has finished, with a matching response, after the bounded
\* wait without one, or because sending failed, its one-shot listener is not
\* in the listener list; no step of buy() changes the other members of the
\* list; and a buy() suspended in the bounded wait after its frame was sent
\* always finishes.
C19_OneShotCleanup ==
    /\ [](buyCall.pc \in {"idle", "done"} => "oneshot" \notin Range(listeners))
    /\ [][buyCall' # buyCall => OtherListeners(listeners') = OtherListeners(listeners)]_vars
    /\ (buyCall.pc = "wait_event" ~> buyCall.pc = "done")

\* buy() finished on the timeout while another listener is registered
C19_Witness ==
    /\ buyCall.pc = "done"
    /\ buyCall.result = "timeout"
    /\ listeners # <<>>
    /\ "oneshot" \notin Range(listeners)

(***************************************************************************)
(* Properties of authorize(), checked under SpecAuthorize                  *)
(***************************************************************************)
\* C20: a finished authorize() has yielded a boolean, and it has yielded true
\* only if the reader's internal handler processed an authorize response
\* without an error; no failure, a timeout included, leaves authorize() as an
\* exception.  Violated: a connect() that times out or fails re-raises, and
\* authorize() lets the exception through.
C20_AuthorizeYieldsBoolean ==
    authCall.pc = "done"
        => /\ authCall.result \in {"true", "false"}
           /\ authCall.result = "true" => dispatch.saw_auth_ok

(***************************************************************************)
(* Properties of reconnection, checked under SpecReconnect                 *)
(***************************************************************************)
\* the tasks suspended in websockets.connect
ConnectingTasks ==
    {r \in ReaderIds : readerPc[r].pc = "connecting"}
        \cup {p \in Callers : callerPc[p] = "connecting"}
        \cup (IF authCall.pc = "connecting" THEN {AuthTask} ELSE {})

\* C21: at most one connection attempt is in progress, and while a socket is
\* open the authorized flag and the authorization-complete signal are up only
\* if an authorize response received on that socket was processed: nothing
\* of the previous connection is observable on the new one.  Violated: a
\* frame the reader took from the old socket is handled after the reconnect.
C21_ReconnectResetsAuthorization ==
    /\ Cardinality(ConnectingTasks) <= 1
    /\ (conn.ws = "open" /\ (conn.authorized \/ authEvent))
           => dispatch.auth_sock = conn.sockets

(***************************************************************************)
(* Properties of send(), checked under SpecBuy through its caller buy()    *)
(***************************************************************************)
\* C22: a transport failure inside send() never reaches the caller of send()
\* as an exception.  Violated: send() awaits connect() without a handler, and
\* connect() re-raises the timeout or the failure of websockets.connect.
C22_SendNeverRaises ==
    buyCall.pc = "done" => buyCall.result # "raised"

(***************************************************************************)
(* Properties of concurrent send() calls, checked under SpecSend           *)
(***************************************************************************)
\* C23: at most one send() caller is writing to the socket at any moment, and
\* the socket gets frames whole and one after another: the beginning of a
\* write is followed by the end of the same caller's write, or is the last
\* thing on the socket while that caller is still writing.
C23_WritesSerialized ==
    /\ Cardinality({p \in Callers : callerPc[p] = "writing"}) <= 1
    /\ \A i \in 1..Len(written) :
          written[i][2] = "head"
              => IF i < Len(written)
                 THEN written[i + 1][1] = written[i][1] /\ written[i + 1][2] # "head"
                 ELSE callerPc[written[i][1]] = "writing"

\* one caller is writing its frame while the other waits for _send_lock, after
\* a whole frame has been written
C23_Witness ==
    /\ \E p \in Callers : callerPc[p] = "writing"
    /\ \E p \in Callers : callerPc[p] = "lock_wait"
    /\ \E i \in 1..Len(written) : written[i][2] = "tail"

(***************************************************************************)
(* Properties of the buy error, checked under SpecBot                      *)
(***************************************************************************)
\* C24: a step that handles a buy error frame (it consumes a broker answer
\* without consuming a contract id) while some trade is awaiting a contract
\* sets the row of the oldest awaiting entry of OrderExecutor.trades to
\* REJECTED and clears its awaiting flag; it leaves the PositionManager, every
\* other entry and every other row as they were.
C24_ErrorRejectsOldest ==
    [][(brokerBuys' < brokerBuys /\ nextCid' = nextCid
            /\ \E i \in 1..Len(trades) : trades[i].awaiting_contract)
        => \E i \in 1..Len(trades) :
              /\ trades[i].awaiting_contract
              /\ \A j \in 1..(i - 1) : ~trades[j].awaiting_contract
              /\ tradeDb'[trades[i].id] = [tradeDb[trades[i].id] EXCEPT !.status = "REJECTED"]
              /\ trades'[i] = [trades[i] EXCEPT !.awaiting_contract = FALSE]
              /\ Len(trades') = Len(trades)
              /\ \A j \in 1..Len(trades) : j # i => trades'[j] = trades[j]
              /\ \A t \in TradeIds : t # trades[i].id => tradeDb'[t] = tradeDb[t]
              /\ pm' = pm
      ]_vars

\* two buys were registered and one error frame has been handled: the older
\* trade is REJECTED, the newer one is still awaiting, and no Position exists
C24_Witness ==
    /\ Len(trades) = 2
    /\ tradeDb[trades[1].id].status = "REJECTED"
    /\ ~trades[1].awaiting_contract
    /\ trades[2].awaiting_contract
    /\ tradeDb[trades[2].id].status = "PENDING"
    /\ DOMAIN pm.active_positions = {}

(***************************************************************************)
(* Properties of SignalConsensus.aggregate, checked under SpecConsensus    *)
(***************************************************************************)
\* C25: when the signals of a call that have a score of at least 0.60 come
\* from fewer than two distinct strategies (no signal of the model carries a
\* single-trusted flag), aggregate returns no decision.
C25_DiversityRequired ==
    (/\ consensus.kind # "not_called"
     /\ Cardinality({signals[i].strategy :
                        i \in {j \in 1..Len(signals) : signals[j].score >= 60}}) < 2)
        => consensus.kind = "none"

\* aggregate was called with two strong CALL signals of one strategy, which
\* only the diversity check turns down
C25_Witness ==
    /\ consensus.kind = "none"
    /\ Len(signals) = 2
    /\ signals[1].strategy = signals[2].strategy
    /\ signals[1].side = "CALL" /\ signals[2].side = "CALL"
    /\ signals[1].score = 70 /\ signals[2].score = 65

\* the signals of the call that pass the strength filter
Surviving == SelectSeq(signals, LAMBDA s : s.score >= 60)

\* C26: for signals in the RISE / FALL vocabulary, when both sides have
\* surviving signals and |rise_sum - fall_sum| / (rise_sum + fall_sum) < 0.30,
\* aggregate returns no decision.  Violated: the conflict filter looks for
\* CALL and PUT only, and the weighted sum that follows raises KeyError.
C26_ConflictAbstains ==
    LET rise_sum == SumScore(Surviving, "RISE")
        fall_sum == SumScore(Surviving, "FALL")
        diff == IF rise_sum >= fall_sum THEN rise_sum - fall_sum ELSE fall_sum - rise_sum
    IN (/\ consensus.kind # "not_called"
        /\ \A i \in 1..Len(signals) : signals[i].side \in {"RISE", "FALL"}
        /\ rise_sum > 0
        /\ fall_sum > 0
        /\ diff * 100 < 30 * (rise_sum + fall_sum))
           => consensus.kind = "none"

\* C27: when aggregate decides on CALL / PUT signals and the classifier has an
\* answer (predicted side, confidence), the decision is the classifier's
\* (method ml_override, score = confidence) exactly when the predicted side
\* is the weighted-majority side, confidence >= 0.70 and confidence >=
\* traditional_score + 0.05; otherwise it is the traditional side and score;
\* the side returned is always the weighted-majority side.  Violated: the
\* classifier is never consulted, its feature vector has 14 entries where
\* aggregate expects 13.
C27_OverrideRule ==
    LET agg_call == SumScore(Surviving, "CALL")
        agg_put == SumScore(Surviving, "PUT")
        total == agg_call + agg_put
        majority == IF agg_call > agg_put THEN "CALL" ELSE "PUT"
        agg_side == IF agg_call > agg_put THEN agg_call ELSE agg_put
        p == consensus.predicted
        override == /\ p.side = majority
                    /\ p.score >= 70
                    /\ p.score * total >= agg_side * 100 + 5 * total
    IN (consensus.kind = "decision" /\ consensus.predicted # NoPrediction)
          => /\ consensus.side = majority
             /\ override => /\ consensus.method = "ml_override"
                            /\ consensus.score = <<p.score, 100>>
             /\ ~override => /\ consensus.method = "traditional"
                             /\ consensus.score = <<agg_side, total>>

ExpiredOnly(body) == body.is_expired /\ ~body.is_sold /\ body.status = "none"

\* C29: a run of _handle_contract_update on a frame that has is_expired and
\* no is_sold field, for a position that is active and not cleaned, settles
\* the position (the row of its trade becomes WON or LOST) and closes it
\* (the position leaves the active set and its contract id is cleaned).
C29_ExpiredFrameSettlesAndCloses ==
    [][\A data \in ContractFrames :
          LET pos == FramePosition(pm, data) IN
          (/\ ExpiredOnly(data.body)
           /\ pos # NoPos
           /\ ~is_cleaned(pm, data.id)
           /\ ~is_cleaned(pm, data.contract_id)
           /\ HandleContractUpdate(data))
          => /\ tradeDb'[pos.trade_id].status \in {"WON", "LOST"}
             /\ get_position(pm', pos.contract_id) = NoPos
             /\ is_cleaned(pm', pos.contract_id)
      ]_vars

\* the part of C29 that the handler does perform: the frame is detected as
\* settled and the row of the trade takes its terminal status
C29_ExpiredFrameDetected ==
    [][\A data \in ContractFrames :
          LET pos == FramePosition(pm, data) IN
          (/\ ExpiredOnly(data.body)
           /\ pos # NoPos
           /\ ~is_cleaned(pm, data.id)
           /\ ~is_cleaned(pm, data.contract_id)
           /\ HandleContractUpdate(data))
          => tradeDb'[pos.trade_id].status \in {"WON", "LOST"}
      ]_vars


(***************************************************************************)
(* The hybrid recovery amount, checked under SpecRecovery                  *)
(***************************************************************************)
\* the amount of the sizing rule, in 1/Scale cents before rounding: the
\* Fibonacci amount (times the martingale multiplier from the third loss
\* on) or the recovery target total_losses / 0.82 if larger, capped by
\* base_amount x max_multiplier and by max_recovery_pct of the balance bal
HybridRule(streak, total_losses, bal) ==
    LET idx == IF streak - 1 <= Len(fib_sequence) - 1
               THEN streak - 1 ELSE Len(fib_sequence) - 1
        m == IF streak >= 3 THEN RECOVERY_MULTIPLIER ELSE 1
        hybrid == base_amount * fib_sequence[idx + 1] * m * Scale
        target == total_losses * 100 * 100
        raw == IF hybrid >= target THEN hybrid ELSE target
        cap_abs == base_amount * MAX_RECOVERY_AMOUNT_MULTIPLIER * Scale
        cap_bal == bal * max_recovery_pct_balance * 82
        lower == IF cap_abs <= cap_bal THEN cap_abs ELSE cap_bal
    IN (2 * (IF raw <= lower THEN raw ELSE lower) + Scale) \div (2 * Scale)

InRecoveryRange == risk.recovery_streak >= 1 /\ risk.recovery_streak <= max_recovery_streak

\* C30: with recovery enabled and 1 <= recovery_streak <= max_recovery_streak,
\* get_next_trade_amount, called without arguments as the bot calls it or
\* with the account balance, returns the amount of the sizing rule for the
\* current streak, outstanding losses and account balance, rounded to cents.
C30_HybridAmountFormula ==
    (RECOVERY_ENABLED /\ InRecoveryRange)
        => \A bal_arg \in {NoVal, balance} :
              get_next_trade_amount(risk, now, NoVal, bal_arg).amount
                  = HybridRule(risk.recovery_streak, risk.total_losses, balance)

\* the part of C30 about the call without a balance (bot.py:275,
\* risk_manager.py:392)
C30_WithoutBalance ==
    (RECOVERY_ENABLED /\ InRecoveryRange)
        => get_next_trade_amount(risk, now, NoVal, NoVal).amount
              = HybridRule(risk.recovery_streak, risk.total_losses, balance)

\* the part of C30 about the call that passes the account balance
C30_WithBalance ==
    (RECOVERY_ENABLED /\ InRecoveryRange /\ balance > 0)
        => get_next_trade_amount(risk, now, NoVal, balance).amount
              = HybridRule(risk.recovery_streak, risk.total_losses, balance)

\* the scenario of src/test_recovery.py on an account large enough for the
\* balance cap not to bind: after losses of 1.00 the amounts at streak 1 and
\* at streak 2 are those of the sizing rule, 1.22 and 2.44
C30_TwoLossesOfOne ==
    (/\ RECOVERY_ENABLED
     /\ risk.recovery_streak \in {1, 2}
     /\ risk.total_losses = 100 * risk.recovery_streak
     /\ balance >= 5000)
        => /\ get_next_trade_amount(risk, now, NoVal, NoVal).amount
                 = HybridRule(risk.recovery_streak, risk.total_losses, balance)
           /\ get_next_trade_amount(risk, now, NoVal, NoVal).amount
                 = 122 * risk.recovery_streak


(***************************************************************************)
(* The two vocabularies of a side, checked under SpecBot                   *)
(***************************************************************************)
\* C31: a place_trade call with side RISE or FALL records the trade under
\* that same side (the side is encoded to the broker's contract type and
\* decoded again before the row is created) and sends the buy frame with
\* contract type CALL for RISE and PUT for FALL; the entry registered in
\* self.trades afterwards carries the same two values.
C31_SideRoundTrip ==
    /\ [][\A side \in {"RISE", "FALL"}, caller \in {"route", "tick"} :
             PlaceTradeSend(side, caller)
                => \E c \in placing' \ placing :
                      /\ c.side = side
                      /\ c.deriv_side = (IF side = "RISE" THEN "CALL" ELSE "PUT")
                      /\ tradeDb'[c.id].side = side
         ]_vars
    /\ [](\A i \in 1..Len(trades) :
             /\ trades[i].side \in {"RISE", "FALL"}
             /\ trades[i].deriv_side = (IF trades[i].side = "RISE" THEN "CALL" ELSE "PUT")
             /\ tradeDb[trades[i].id].side = trades[i].side)

\* a RISE trade and a FALL trade are registered, sent as CALL and as PUT
C31_Witness ==
    /\ \E i \in 1..Len(trades) :
          /\ trades[i].side = "RISE" /\ trades[i].deriv_side = "CALL"
          /\ tradeDb[trades[i].id].side = "RISE"
    /\ \E i \in 1..Len(trades) :
          /\ trades[i].side = "FALL" /\ trades[i].deriv_side = "PUT"
          /\ tradeDb[trades[i].id].side = "FALL"


(***************************************************************************)
(* Outcomes fed to the RiskManager, checked under SpecExec                 *)
(***************************************************************************)
\* C32: RiskManager.update_trade_outcome is called at most once for each
\* trade, counting the calls of _handle_contract_update and those of
\* _cleanup_expired_trades together.
C32_OutcomeAppliedOnce == \A t \in TradeIds : riskApplied[t] <= 1


(***************************************************************************)
(* Buy acknowledgements and the requests they answer, checked under SpecBot*)
(***************************************************************************)
\* The broker answers buy requests in the order they were sent, and trade ids
\* are allotted in that order: the request answered next is that of the
\* trade after those already answered.
AnsweredNext == Cardinality(CreatedIds) - brokerBuys + 1

\* a step of _handle_buy on a frame with a contract_id and no error
AckStep == brokerBuys' = brokerBuys - 1 /\ nextCid' = nextCid + 1

\* C33: every successful buy acknowledgement is linked to the trade whose
\* buy request it answers: after _handle_buy that trade is ACTIVE and the
\* position registered under the acknowledged contract id belongs to it.
C33_AckLinkedToItsTrade ==
    [][AckStep
         => /\ tradeDb'[AnsweredNext].status = "ACTIVE"
            /\ get_position(pm', nextCid) # NoPos
            /\ get_position(pm', nextCid).trade_id = AnsweredNext
      ]_vars

\* the first half of C33: the acknowledgement is not dropped, a position is
\* registered under the acknowledged contract id
C33_AckNeverDropped ==
    [][AckStep => get_position(pm', nextCid) # NoPos]_vars

\* the second half of C33: an acknowledgement that is linked is linked to the
\* trade it answers, not to an older trade that is still awaiting
C33_AckNeverMisattributed ==
    [][(AckStep /\ get_position(pm', nextCid) # NoPos)
         => get_position(pm', nextCid).trade_id = AnsweredNext
      ]_vars


(***************************************************************************)
(* Properties of allow_trade, checked under SpecRisk                       *)
(***************************************************************************)
\* C34: an allow_trade call that returns true leaves the risk state neither
\* LOCKED nor PANIC.
C34_AdmittedNotBlocked ==
    \A n \in OpenCounts :
        LET a == allow_trade(risk, now, n, balance) IN
        a.allowed => a.risk.state \notin {"LOCKED", "PANIC"}


(***************************************************************************)
(* The hard drawdown stop, checked under SpecLock                          *)
(***************************************************************************)
\* clock steps of panic_lock_seconds looked ahead from a locked state
MaxWaitSteps == 3

\* the state is LOCKED and the condition of the hard drawdown stop of
\* _check_drawdown holds (risk_manager.py:501-509)
HardDrawdownLocked ==
    /\ risk.state = "LOCKED"
    /\ Truthy(risk.peak_balance)
    /\ Truthy(risk.start_day_balance)
    /\ risk.net_loss * 100 >= max_drawdown_pct * risk.peak_balance

\* C35: while the state is LOCKED by the hard drawdown stop, allow_trade
\* returns false whatever the time of the call: the lock does not expire.
C35_HardLockNeverExpires ==
    HardDrawdownLocked
        => \A k \in 0..MaxWaitSteps, n \in OpenCounts :
              ~allow_trade(risk, now + k * ClockStep, n, balance).allowed


\* a step of reset_streak (bot.py:429, routes.py:521)
ResetStreakStep ==
    /\ risk' = reset_streak(risk)
    /\ sinceUpdate' = FALSE
    /\ UNCHANGED <<balance, now, outcomes>>

\* C36: reset_streak sets the win and loss streaks, the recovery streak and
\* the outstanding losses to 0 and next_trade_amount to base_amount, and
\* called while the state is LOCKED it leaves the state LOCKED and
\* locked_until as it was.
C36_ResetKeepsLock ==
    [][ResetStreakStep
         => /\ risk'.consecutive_losses = 0
            /\ risk'.consecutive_wins = 0
            /\ risk'.recovery_streak = 0
            /\ risk'.total_losses = 0
            /\ risk'.next_trade_amount = base_amount
            /\ (risk.state = "LOCKED"
                  => /\ risk'.state = "LOCKED"
                     /\ risk'.locked_until = risk.locked_until)
      ]_vars

\* the part of C36 that reset_streak does perform: the counters are reset and
\* locked_until is left as it was
C36_ResetCounters ==
    [][ResetStreakStep
         => /\ risk'.consecutive_losses = 0
            /\ risk'.consecutive_wins = 0
            /\ risk'.recovery_streak = 0
            /\ risk'.total_losses = 0
            /\ risk'.next_trade_amount = base_amount
            /\ risk'.locked_until = risk.locked_until
      ]_vars


(***************************************************************************)
(* Frames after the expiry of a contract, checked under SpecExec           *)
(***************************************************************************)
\* C37: a run of _handle_contract_update on a frame without a sold flag, a
\* settlement status or an expired flag, for a position that is active and
\* not cleaned and whose trade was created more than three minutes ago (its
\* contract of CONTRACT_DURATION ticks has expired by then), detects the
\* settlement: the row of the trade becomes WON or LOST.
C37_ExpiryTimeDetected ==
    [][\A data \in ContractFrames :
          LET pos == FramePosition(pm, data) IN
          (/\ NoSettlementIndicator(data.body)
           /\ pos # NoPos
           /\ ~is_cleaned(pm, data.id)
           /\ ~is_cleaned(pm, data.contract_id)
           /\ tradeDb[pos.trade_id].aged
           /\ HandleContractUpdate(data))
          => tradeDb'[pos.trade_id].status \in {"WON", "LOST"}
      ]_vars


(***************************************************************************)
(* The panic cool-down, checked under SpecRisk                             *)
(***************************************************************************)
\* d, as a part of the peak balance, is at least panic_drawdown_ratio (0.8) x
\* max_drawdown_pct and below max_drawdown_pct
InPanicBand(d) ==
    /\ Truthy(risk.peak_balance)
    /\ Truthy(risk.start_day_balance)
    /\ d * 1000 >= max_drawdown_pct * 8 * risk.peak_balance
    /\ d * 100 < max_drawdown_pct * risk.peak_balance

\* the state is PANIC with its cool-down running, and the drawdown is in the
\* panic band by the figure of _check_drawdown (net_loss) or by that of
\* allow_trade (peak balance less account balance)
PanicByDrawdown ==
    /\ risk.state = "PANIC"
    /\ Truthy(risk.panic_until)
    /\ (InPanicBand(risk.net_loss) \/ InPanicBand(risk.peak_balance - balance))

\* C38: when update_trade_outcome returns with the drawdown in the panic band
\* the state is PANIC (or LOCKED by the daily loss limit); and while the
\* state is PANIC for a drawdown in the band, an allow_trade call made before
\* panic_until returns false, and one made at or after panic_until returns
\* with the state out of PANIC.
C38_PanicCooldown ==
    /\ (sinceUpdate /\ InPanicBand(risk.net_loss)) => risk.state \in {"PANIC", "LOCKED"}
    /\ PanicByDrawdown
          => \A k \in 0..MaxWaitSteps, n \in OpenCounts :
                LET t == now + k * ClockStep
                    a == allow_trade(risk, t, n, balance)
                IN /\ (t < risk.panic_until) => ~a.allowed
                   /\ (t >= risk.panic_until) => a.risk.state # "PANIC"

\* the part of C38 that holds: the state is blocking after the outcome, and
\* no allow_trade call before panic_until returns true
C38_BlockedDuringCooldown ==
    /\ (sinceUpdate /\ InPanicBand(risk.net_loss)) => risk.state \in {"PANIC", "LOCKED"}
    /\ PanicByDrawdown
          => \A k \in 0..MaxWaitSteps, n \in OpenCounts :
                (now + k * ClockStep < risk.panic_until)
                    => ~allow_trade(risk, now + k * ClockStep, n, balance).allowed


(***************************************************************************)
(* What an admission guarantees, checked under SpecRisk                    *)
(***************************************************************************)
\* the allow_trade call the bot makes in the current state with n open positions
Admission(n) == allow_trade(risk, now, n, balance)

\* C39: when allow_trade returns true, the open count is below
\* max_open_trades and the balance is at least 1.2 x next_trade_amount; and
\* if a recovery is active, recovery_streak is below max_recovery_streak and
\* next_trade_amount is within max_recovery_pct_balance of the balance and
\* within base_amount x max_recovery_amount_multiplier.
C39_AdmissionGuarantees ==
    \A n \in OpenCounts :
        LET after == Admission(n).risk IN
        Admission(n).allowed
            => /\ n < MAX_TRADES
               /\ balance * 5 >= after.next_trade_amount * 6
               /\ (after.recovery_streak > 0
                     => /\ after.recovery_streak < max_recovery_streak
                        /\ after.next_trade_amount * 100
                              <= balance * max_recovery_pct_balance
                        /\ after.next_trade_amount
                              <= base_amount * MAX_RECOVERY_AMOUNT_MULTIPLIER)

\* a trade is admitted during a recovery, with a stake above the base amount,
\* while a call with the open count at its maximum is refused
C39_Witness ==
    /\ risk.recovery_streak > 0
    /\ risk.next_trade_amount > base_amount
    /\ Admission(0).allowed
    /\ ~Admission(MAX_TRADES).allowed


(***************************************************************************)
(* Run loops across stop and start, checked under SpecLoops                *)
(***************************************************************************)
\* the run loops that go on at their next while test
ActiveLoops == {l \in LoopIds : loopPc[l].pc = "looping" /\ running}

\* C40: at most one run loop is active at any time, and a run loop that was
\* inside run() when a stop() returned performs no iteration afterwards.
C40_SingleRunLoop ==
    /\ [](Cardinality(ActiveLoops) <= 1)
    /\ [][\A l \in stoppedLoops : loopPc'[l].iters = loopPc[l].iters]_vars

\* the first half of C40 alone
C40_AtMostOneActive == Cardinality(ActiveLoops) <= 1

\* the second half of C40 alone
C40_NoIterationAfterStop ==
    [][\A l \in stoppedLoops : loopPc'[l].iters = loopPc[l].iters]_vars

====
